---- MODULE Spec2Model ----
(***************************************************************************)
(* GraphForge Studio: the G3D parser (services/parser.ts) and the host    *)
(* that runs it on the editor's text (App.tsx).                           *)
(*                                                                         *)
(* Text.  A source text is the sequence of its lines (code.split('\n')),  *)
(* and a line is the sequence of its atoms.  An atom is a string: one     *)
(* white-space character " ", one punctuation character, a maximal run of *)
(* the characters - . 0-9 (a numeral run, the class [-\d.]+), or a        *)
(* maximal run of word characters (the class \w+).  The text of a comment *)
(* after its # is kept as one atom; the parser drops it unread.  Every    *)
(* regular expression of the parser is matched atom by atom.              *)
(*                                                                         *)
(* Numbers.  A JavaScript number is modelled in hundredths (2.5 is 250);  *)
(* NaN is a value of its own.                                              *)
(***************************************************************************)
EXTENDS Integers, Sequences, FiniteSets, TLC

VARIABLES
    g3dCode,          \* App state: the editor's text
    graphData,        \* App state: None or Some(IR)
    error,            \* App state: None or Some(message)
    debounceTimeout,  \* the pending setTimeout: None or Some(text its handleParse closure holds)
    parsedCode,       \* history: None or Some(text handed to the last completed handleParse)
    lastParse,        \* history: None or Some(its logical lines and what parseG3D did with it)
    props,            \* ParticleSystem: None before it is mounted, else Some(its props)
    particles,        \* ParticleSystem: particlesRef.current
    initializeRef,    \* ParticleSystem: initializeRef.current
    stepLog,          \* history of the particles: see LogOf
    binder,           \* createConfiguredMathParser: None, or Some(the state of its binding loop)
    evaluator,        \* a parser in use: None, or Some(its function, its variables, its answers)
    sampler,          \* the field samplers: None, or Some(the scene and what was drawn from it)
    geodesic,         \* calculateGeodesicPath: None, or Some(the state of a call)
    contour,          \* the contour extractors: None, or Some(a grid cell and its segments)
    fieldline,        \* a streamline trace: None, or Some(the state of its loop)
    physics,          \* the integration steps: None, or Some(a particle and its last step)
    animation,        \* AnimationController: None, or Some(the animation and its time)
    measurement,      \* ViewportPanel: None, or Some(measurement mode and measurementData)
    lyapunov,         \* generateLyapunovGrid: None, or Some(the exponents and the grid returned)
    gradientCache     \* createGradientComputer: None, or Some(the cache and its history)

hostVars == <<g3dCode, graphData, error, debounceTimeout, parsedCode, lastParse>>
simVars == <<props, particles, initializeRef, stepLog>>
evalVars == <<binder, evaluator, sampler>>
geoVars == <<geodesic>>
fxVars == <<contour, fieldline, physics, animation, measurement, lyapunov, gradientCache>>
vars == <<hostVars, simVars, evalVars, geoVars, fxVars>>

\* null / a value
None == <<>>
Some(v) == <<v>>

-----------------------------------------------------------------------------
(* Bounds of the model *)

\* lines the editor's text may reach by typing
MaxLines == 3

-----------------------------------------------------------------------------
(* Numbers *)

NaN == [nan |-> TRUE, v |-> 0]
Num(h) == [nan |-> FALSE, v |-> h]
isNaN(n) == n.nan

\* the numeral runs of the vocabulary, in hundredths
NumeralValue ==
    ("0" :> 0) @@ ("1" :> 100) @@ ("2" :> 200) @@ ("3" :> 300) @@ ("4" :> 400) @@
    ("6" :> 600) @@ ("8" :> 800) @@ ("12" :> 1200) @@ ("500" :> 50000) @@
    ("5000" :> 500000) @@ ("5001" :> 500100) @@ ("99999" :> 9999900) @@
    ("-2" :> -200) @@ ("-3" :> -300) @@ ("-4" :> -400) @@ ("-8" :> -800) @@
    ("0.05" :> 5) @@ ("0.3" :> 30) @@ ("0.4" :> 40) @@ ("0.5" :> 50) @@
    ("0.8" :> 80) @@ ("-0.15" :> -15) @@ ("-0.3" :> -30) @@ ("2.0" :> 200) @@
    ("2.5" :> 250) @@ ("2.8" :> 280) @@ ("3.0" :> 300) @@ ("6.28" :> 628) @@
    ("3.1415926535" :> 314) @@ ("1-2" :> 100)

\* numeral runs that hold no number: parseFloat gives NaN
EmptyNumerals == {"-", ".", "--"}

\* numeral runs made of digits only (they are word atoms too)
DigitAtoms == {"0", "1", "2", "3", "4", "6", "8", "12", "500", "5000", "5001", "99999"}

IsNumeralRun(a) == a \in DOMAIN NumeralValue \/ a \in EmptyNumerals

\* parseFloat of a string: the number its leading numeral holds, NaN without one
parseFloat(s) ==
    IF s # <<>> /\ s[1] \in DOMAIN NumeralValue THEN Num(NumeralValue[s[1]]) ELSE NaN

\* parseInt(s, 10) of a run of digits
parseInt(a) == NumeralValue[a] \div 100

-----------------------------------------------------------------------------
(* Atoms *)

Space == " "
Punct == {"#", "\\", "=", "(", ")", ",", "[", "]", "'", "\"", "+", "*", "/", "^"}

IsWord(a) == a \notin {"", Space} /\ a \notin Punct /\ (IsNumeralRun(a) => a \in DigitAtoms)

\* the /i flag and toUpperCase(), on the atoms of the vocabulary
toUpperCase(a) ==
    CASE a = "set" -> "SET" [] a = "range" -> "RANGE" [] a = "to" -> "TO"
      [] a = "def" -> "DEF" [] a = "plot3d" -> "PLOT3D"
      [] a = "x" -> "X" [] a = "y" -> "Y" [] a = "z" -> "Z"
      [] OTHER -> a

toLowerCase(a) ==
    CASE a = "X" -> "x" [] a = "Y" -> "y" [] a = "Z" -> "z"
      [] a = "PLASMA" -> "plasma" [] a = "ELLIPSOID" -> "ellipsoid"
      [] OTHER -> a

\* names by their prefix: FN\w+, VEC_\w+, TENSOR_\w+
FnNames == {"FNA", "FNB", "FNSADDLE", "FNPI", "FNMANIFOLD", "FNPSI1", "FNPSI2",
            "FNEP", "FNEP1_RESIDUE", "FNEP2_RESIDUE", "FNEP3_RESIDUE",
            "FNEP4_RESIDUE", "FNSURFACE"}
VecNames == {"VEC_V", "VEC_W"}
TensorNames == {"TENSOR_T"}

-----------------------------------------------------------------------------
(* Strings as sequences of atoms *)

RECURSIVE Join(_)
\* the string the atoms spell
Join(s) == IF s = <<>> THEN "" ELSE s[1] \o Join(Tail(s))

From(s, i) == SubSeq(s, i, Len(s))

\* s.indexOf(a) from position i on, 1-based; 0 when absent
IndexFrom(s, a, i) ==
    LET hits == {k \in i..Len(s) : s[k] = a}
    IN  IF hits = {} THEN 0 ELSE CHOOSE k \in hits : \A m \in hits : k <= m

\* s.trim()
trim(s) ==
    LET ink == {k \in 1..Len(s) : s[k] # Space}
    IN  IF ink = {} THEN <<>>
        ELSE SubSeq(s, CHOOSE k \in ink : \A m \in ink : k <= m,
                       CHOOSE k \in ink : \A m \in ink : k >= m)

RECURSIVE split(_, _)
\* s.split(sep)
split(s, sep) ==
    LET k == IndexFrom(s, sep, 1)
    IN  IF k = 0 THEN <<s>> ELSE <<SubSeq(s, 1, k - 1)>> \o split(From(s, k + 1), sep)

\* s.replace(/\s+/g, '')
RECURSIVE stripSpaces(_)
stripSpaces(s) ==
    IF s = <<>> THEN <<>>
    ELSE IF s[1] = Space THEN stripSpaces(Tail(s)) ELSE <<s[1]>> \o stripSpaces(Tail(s))

\* first position at or after i that holds no white space (Len+1 at the end)
RECURSIVE skipSpaces(_, _)
skipSpaces(s, i) == IF i <= Len(s) /\ s[i] = Space THEN skipSpaces(s, i + 1) ELSE i

\* ^KEYWORD\s : the line starts with the keyword (any case) and a white space
StartsWithKeyword(s, kw) == Len(s) >= 2 /\ toUpperCase(s[1]) = kw /\ s[2] = Space

-----------------------------------------------------------------------------
(* constants.ts: the text the editor starts with *)

DEFAULT_G3D_CODE == <<
    <<"#", " WebGL Quantum Exceptional Point Dynamics">>,
    <<"#", " A particle simulation of a quantum potential landscape with visual effects.">>,
    <<>>,
    <<"SET", " ", "RANGE", " ", "X", " ", "-8", " ", "TO", " ", "8">>,
    <<"SET", " ", "RANGE", " ", "Y", " ", "-8", " ", "TO", " ", "8">>,
    <<"SET", " ", "RANGE", " ", "Z", " ", "-4", " ", "TO", " ", "12">>,
    <<"COLOR", " ", "MAP", " ", "plasma">>,
    <<>>,
    <<"#", " Define the components of the potential function">>,
    <<"DEF", " ", "FNPI", " ", "=", " ", "3.1415926535">>,
    <<"DEF", " ", "FNMANIFOLD", "(", "x", ",", "y", ")", " ", "=", " ", "EXP", "(", "-0.3", "*", "(", "x", "^", "2", " ", "+", " ", "y", "^", "2", ")", ")", " ", "*", " ", "COS", "(", "SQRT", "(", "x", "^", "2", " ", "+", " ", "y", "^", "2", ")", ")">>,
    <<>>,
    <<"#", " Time-dependent part of the wavefunction for quantum coherence ripples">>,
    <<"DEF", " ", "FNPSI1", "(", "x", ",", "y", ",", "t", ")", " ", "=", " ", "(", "x", "^", "2", " ", "-", " ", "y", "^", "2", ")", " ", "*", " ", "EXP", "(", "-0.15", "*", "(", "x", "^", "2", " ", "+", " ", "y", "^", "2", ")", ")", " ", "*", " ", "SIN", "(", "2", "*", "FNPI", "*", "SQRT", "(", "x", "^", "2", " ", "+", " ", "y", "^", "2", ")", "/", "8", " ", "-", " ", "t", ")">>,
    <<"DEF", " ", "FNPSI2", "(", "x", ",", "y", ",", "t", ")", " ", "=", " ", "2", "*", "x", "*", "y", " ", "*", " ", "EXP", "(", "-0.15", "*", "(", "x", "^", "2", " ", "+", " ", "y", "^", "2", ")", ")", " ", "*", " ", "COS", "(", "2", "*", "FNPI", "*", "SQRT", "(", "x", "^", "2", " ", "+", " ", "y", "^", "2", ")", "/", "8", " ", "-", " ", "t", ")">>,
    <<>>,
    <<"#", " Define the four exceptional points (EPs) with tunable residues">>,
    <<"DEF", " ", "FNEP1_RESIDUE", " ", "=", " ", "2.5">>,
    <<"DEF", " ", "FNEP2_RESIDUE", " ", "=", " ", "3.0">>,
    <<"DEF", " ", "FNEP3_RESIDUE", " ", "=", " ", "2.0">>,
    <<"DEF", " ", "FNEP4_RESIDUE", " ", "=", " ", "2.8">>,
    <<"DEF", " ", "FNEP", "(", "x", ",", "y", ")", " ", "=", " ", "FNEP1_RESIDUE", "/", "(", "(", "x", "-3", ")", "^", "2", "+", "(", "y", "-2", ")", "^", "2", "+", "0.3", ")", " ", "+", " ", "FNEP2_RESIDUE", "/", "(", "(", "x", "+", "2", ")", "^", "2", "+", "(", "y", "-4", ")", "^", "2", "+", "0.3", ")", " ", "+", " ", "FNEP3_RESIDUE", "/", "(", "(", "x", "+", "4", ")", "^", "2", "+", "(", "y", "+", "3", ")", "^", "2", "+", "0.3", ")", " ", "+", " ", "FNEP4_RESIDUE", "/", "(", "(", "x", "-2", ")", "^", "2", "+", "(", "y", "+", "4", ")", "^", "2", "+", "0.3", ")">>,
    <<>>,
    <<"#", " Combine functions into the final surface potential, including animated ripples">>,
    <<"DEF", " ", "FNSURFACE", "(", "x", ",", "y", ",", "t", ")", " ", "=", " ", "FNMANIFOLD", "(", "x", ",", "y", ")", " ", "+", " ", "0.4", "*", "FNPSI1", "(", "x", ",", "y", ",", "t", ")", " ", "+", " ", "0.4", "*", "FNPSI2", "(", "x", ",", "y", ",", "t", ")", " ", "+", " ", "0.8", "*", "FNEP", "(", "x", ",", "y", ")">>,
    <<>>,
    <<"#", " Add labels for the exceptional points, which follow the animated surface">>,
    <<"LABEL", " ", "\"", "EP1", "\"", " ", "AT", " ", "3", ",", " ", "2", ",", " ", "FNSURFACE", "(", "3", ",", "2", ",", "t", ")", " ", "+", " ", "0.5">>,
    <<"LABEL", " ", "\"", "EP2", "\"", " ", "AT", " ", "-2", ",", " ", "4", ",", " ", "FNSURFACE", "(", "-2", ",", "4", ",", "t", ")", " ", "+", " ", "0.5">>,
    <<"LABEL", " ", "\"", "EP3", "\"", " ", "AT", " ", "-4", ",", " ", "-3", ",", " ", "FNSURFACE", "(", "-4", ",", "-3", ",", "t", ")", " ", "+", " ", "0.5">>,
    <<"LABEL", " ", "\"", "EP4", "\"", " ", "AT", " ", "2", ",", " ", "-4", ",", " ", "FNSURFACE", "(", "2", ",", "-4", ",", "t", ")", " ", "+", " ", "0.5">>,
    <<>>,
    <<"#", " Add 500 physics-driven particles to the simulation">>,
    <<"PARTICLES", " ", "500">>,
    <<>>,
    <<"#", " Animate the 't' parameter to drive the quantum ripples">>,
    <<"ANIMATE", " ", "t", " ", "FROM", " ", "0", " ", "TO", " ", "6.28", " ", "STEP", " ", "0.05">>,
    <<>>,
    <<"#", " Plot the 3D potential surface">>,
    <<"PLOT3D", " ", "FNSURFACE", "(", "x", ",", "y", ",", "t", ")">>
>>

-----------------------------------------------------------------------------
(* parseG3D, step 1: comments, blank lines and backslash continuations.     *)
(* A logical line is [text, first, last]: text is what the parser keeps;   *)
(* first and last are history, the source lines the text came from, and    *)
(* the parser never reads them.                                             *)

endsWith(s, a) == s # <<>> /\ s[Len(s)] = a

\* line.split('#')[0].trim()
stripComment(line) == trim(split(line, "#")[1])

RECURSIVE joinBackslashLines(_, _, _, _, _)
\* code.split('\n').forEach(...) from source line i on, then the flush of lineBuffer
joinBackslashLines(code, i, lineBuffer, span, out) ==
    IF i > Len(code)
    THEN IF lineBuffer # <<>>
         THEN Append(out, [text |-> lineBuffer, first |-> span[1], last |-> span[2]])
         ELSE out
    ELSE LET trimmed == stripComment(code[i])
             joined == (IF lineBuffer # <<>> THEN Append(lineBuffer, Space) ELSE <<>>) \o trimmed
             sp == IF lineBuffer # <<>> THEN <<span[1], i>> ELSE <<i, i>>
         IN  IF trimmed = <<>>
             THEN joinBackslashLines(code, i + 1, lineBuffer, span, out)
             ELSE IF endsWith(joined, "\\")
             THEN joinBackslashLines(code, i + 1, SubSeq(joined, 1, Len(joined) - 1), sp, out)
             ELSE joinBackslashLines(code, i + 1, <<>>, <<0, 0>>,
                      Append(out, [text |-> joined, first |-> sp[1], last |-> sp[2]]))

backslashProcessedLines(code) == joinBackslashLines(code, 1, <<>>, <<0, 0>>, <<>>)

-----------------------------------------------------------------------------
(* parseG3D, step 2: a DEF line takes the non-keyword lines that follow it *)

keywords == {"SET", "COLOR", "PLOT3D", "PLOT_VECFIELD", "PLOT_TENSOR", "ANIMATE",
             "PARTICLES", "CONTOUR", "LABEL"}

\* line.match(keywordsRegex)
matchesKeyword(s) == Len(s) >= 2 /\ toUpperCase(s[1]) \in keywords /\ s[2] = Space

\* a + b on strings: no space is added, so two runs of one class become one atom
concat(a, b) ==
    IF a # <<>> /\ b # <<>>
       /\ ((IsWord(a[Len(a)]) /\ IsWord(b[1]))
           \/ (IsNumeralRun(a[Len(a)]) /\ IsNumeralRun(b[1])))
    THEN SubSeq(a, 1, Len(a) - 1) \o <<a[Len(a)] \o b[1]>> \o Tail(b)
    ELSE a \o b

RECURSIVE mergeDefLines(_, _, _, _)
\* for (const line of backslashProcessedLines) from index i on, then the flush of defBuffer;
\* defBuffer is None or Some(logical line)
mergeDefLines(ls, i, defBuffer, out) ==
    IF i > Len(ls)
    THEN out \o defBuffer
    ELSE LET line == ls[i]
         IN  IF StartsWithKeyword(line.text, "DEF")
             THEN mergeDefLines(ls, i + 1, Some(line), out \o defBuffer)
             ELSE IF defBuffer # None /\ ~matchesKeyword(line.text)
             THEN mergeDefLines(ls, i + 1,
                      Some([text |-> concat(defBuffer[1].text, line.text),
                            first |-> defBuffer[1].first, last |-> line.last]), out)
             ELSE mergeDefLines(ls, i + 1, None, (out \o defBuffer) \o <<line>>)

finalProcessedLines(code) == mergeDefLines(backslashProcessedLines(code), 1, None, <<>>)

\* finalProcessedLines.filter(line => line.length > 0)
logicalLines(code) == SelectSeq(finalProcessedLines(code), LAMBDA l : Len(l.text) > 0)

-----------------------------------------------------------------------------
(* math-parser.ts: createConfiguredMathParser.  The scope of the evaluator *)
(* is the sequence of its bound user names, [name, value].  The evaluation *)
(* backend is modelled on the expressions of one atom: a numeral or a      *)
(* symbol; it throws on any other text.                                     *)

FunctionValue == [fn |-> TRUE]
IsNumber(val) == DOMAIN val = {"nan", "v"}

Bound(scope, name) == \E k \in 1..Len(scope) : scope[k].name = name
ValueOf(scope, name) == scope[CHOOSE k \in 1..Len(scope) : scope[k].name = name].value

\* parser.evaluate(expr): None when it throws, else Some(value)
evaluate(scope, expr) ==
    LET e == trim(expr)
    IN  IF Len(e) = 1 /\ e[1] \in DOMAIN NumeralValue THEN Some(Num(NumeralValue[e[1]]))
        ELSE IF Len(e) = 1 /\ Bound(scope, e[1]) THEN Some(ValueOf(scope, e[1]))
        ELSE None

\* parser.evaluate(`${signature} = ${fn.body}`): None when it throws, else the new scope.
\* A signature with parameters defines a function and leaves its body unevaluated.
tryBind(scope, fn) ==
    IF fn.params # <<>>
    THEN Some(Append(scope, [name |-> fn.name, value |-> FunctionValue]))
    ELSE LET r == evaluate(scope, fn.body)
         IN  IF r = None THEN None ELSE Some(Append(scope, [name |-> fn.name, value |-> r[1]]))

RECURSIVE bindPass(_, _, _, _, _)
\* for (const name in remainingFunctions): one pass from entry k on;
\* gives [scope, remaining, changed]
bindPass(scope, remaining, k, kept, changed) ==
    IF k > Len(remaining)
    THEN [scope |-> scope, remaining |-> kept, changed |-> changed]
    ELSE LET r == tryBind(scope, remaining[k])
         IN  IF r # None
             THEN bindPass(r[1], remaining, k + 1, kept, TRUE)
             ELSE bindPass(scope, remaining, k + 1, Append(kept, remaining[k]), changed)

\* a loop that goes on after a pass that bound nothing
loopContinuesUnchanged(remaining, changedInLastPass, passes, maxPasses) ==
    Len(remaining) > 0 /\ passes < maxPasses

\* Object.keys(remainingFunctions).length > 0 && changedInLastPass && passes < maxPasses
loopContinues(remaining, changedInLastPass, passes, maxPasses) ==
    Len(remaining) > 0 /\ changedInLastPass /\ passes < maxPasses

RECURSIVE bindLoop(_, _, _, _, _)
\* while (remaining > 0 && changedInLastPass && passes < maxPasses)
bindLoop(scope, remaining, changedInLastPass, passes, maxPasses) ==
    IF loopContinues(remaining, changedInLastPass, passes, maxPasses)
    THEN LET p == bindPass(scope, remaining, 1, <<>>, FALSE)
         IN  bindLoop(p.scope, p.remaining, p.changed, passes + 1, maxPasses)
    ELSE [scope |-> scope, remaining |-> remaining, passes |-> passes]

createConfiguredMathParser(functions) ==
    bindLoop(<<>>, functions, TRUE, 0, Len(functions) + 1)

-----------------------------------------------------------------------------
(* parser.ts: the IR and the errors *)

VALID_COLOR_MAPS == {"viridis", "plasma", "inferno", "magma", "hot", "cool", "default"}
MAX_PARTICLES == 5000

\* LineError with the template's "Line ${lineNumber}: " left out
LineErrorWithoutLine(lineNumber, cause) == [line |-> <<>>, cause |-> cause]

\* new Error(`Line ${lineNumber}: ${cause}`), and the one error thrown without a line
LineError(lineNumber, cause) == [line |-> Some(lineNumber), cause |-> cause]
PlainError(cause) == [line |-> None, cause |-> cause]

\* the IR a parse starts from
InitialIR ==
    [version |-> 1,
     ranges |-> [x |-> [min |-> -100, max |-> 100],
                 y |-> [min |-> -100, max |-> 100],
                 z |-> [min |-> -100, max |-> 100]],
     functions |-> <<>>,
     plots |-> <<>>,
     labels |-> <<>>,
     colorMap |-> "default",
     animation |-> None,
     contours |-> None,
     particles |-> None]

\* the locals of parseG3D while it walks the lines
InitialParse ==
    [ir |-> InitialIR, animationFound |-> FALSE, colorMapFound |-> FALSE,
     contourFound |-> FALSE, particlesFound |-> FALSE]

\* the outcome of one statement: it throws, or it returns with the locals updated
Throw(e) == [thrown |-> Some(e), st |-> InitialParse]
Return(st) == [thrown |-> None, st |-> st]

\* ir.functions[name] (a function object is truthy)
HasFunction(functions, name) == \E k \in 1..Len(functions) : functions[k].name = name

\* ir.functions[name] = { params, body }: a known key keeps its place
SetFunction(functions, name, params, body) ==
    LET entry == [name |-> name, params |-> params, body |-> body]
    IN  IF HasFunction(functions, name)
        THEN [k \in 1..Len(functions) |->
                 IF functions[k].name = name THEN entry ELSE functions[k]]
        ELSE Append(functions, entry)

-----------------------------------------------------------------------------
(* parser.ts: matching helpers *)

\* the atom at position i; "" outside the line
At(s, i) == IF i >= 1 /\ i <= Len(s) THEN s[i] ELSE ""

\* \s+ at position i: the position after the white space, 0 when there is none
afterSpaces(s, i) == IF At(s, i) = Space THEN skipSpaces(s, i) ELSE 0

\* KEYWORD\s+ at position i: the position after it, 0 when it does not match
afterKeyword(s, i, kw) ==
    IF i >= 1 /\ toUpperCase(At(s, i)) = kw THEN afterSpaces(s, i + 1) ELSE 0

\* ([XYZ])\s+ , ([-\d.]+)\s+ and (\w+)\s+ at position p: the position after, 0 on no match
afterAxis(s, p) ==
    IF p > 0 /\ toUpperCase(At(s, p)) \in {"X", "Y", "Z"} THEN afterSpaces(s, p + 1) ELSE 0
afterNumeral(s, p) == IF IsNumeralRun(At(s, p)) THEN afterSpaces(s, p + 1) ELSE 0
afterWord(s, p) == IF p > 0 /\ IsWord(At(s, p)) THEN afterSpaces(s, p + 1) ELSE 0

\* (.+?)\s+KEYWORD\s+ for a lazy group that starts at position p: the position of the
\* first such keyword with a character of the group before it, 0 when there is none
keywordAfter(s, p, kw) ==
    IndexFrom([i \in 1..Len(s) |->
                  IF p > 0 /\ i >= p + 2 /\ s[i - 1] = Space /\ afterKeyword(s, i, kw) > 0
                  THEN "here" ELSE "no"], "here", 1)

\* params.split(',').map(p => p.trim()).filter(p => p)
paramList(s) ==
    LET pieces == split(s, ",")
        names == [k \in 1..Len(pieces) |-> Join(trim(pieces[k]))]
    IN  SelectSeq(names, LAMBDA n : n # "")

-----------------------------------------------------------------------------
(* parser.ts: the statements, in the order the parser tries them.  Each     *)
(* xMatch(s) is line.match(regex): None, or Some(the captured groups); each *)
(* xStatement is the body of its if (match) { ... return; }.                *)

\* /^SET\s+RANGE\s+([XYZ])\s+([-\d.]+)\s+TO\s+([-\d.]+)/i
rangeMatch(s) ==
    LET b == afterKeyword(s, afterKeyword(s, 1, "SET"), "RANGE")
        c == afterAxis(s, b)
        e == afterKeyword(s, afterNumeral(s, c), "TO")
    IN  IF IsNumeralRun(At(s, e)) THEN Some(<<s[b], s[c], s[e]>>) ELSE None

\* rangeStatement repairing a min that is not below its max by swapping the two
rangeStatementSwapping(st, m, lineNumber) ==
    LET axis == toLowerCase(m[1])
        min == parseFloat(<<m[2]>>)
        max == parseFloat(<<m[3]>>)
    IN  IF isNaN(min) \/ isNaN(max)
        THEN Throw(LineError(lineNumber, "Invalid number in RANGE statement."))
        ELSE IF min.v >= max.v
        THEN Return([st EXCEPT !.ir.ranges[axis] = [min |-> max.v, max |-> min.v]])
        ELSE Return([st EXCEPT !.ir.ranges[axis] = [min |-> min.v, max |-> max.v]])

rangeStatement(st, m, lineNumber) ==
    LET axis == toLowerCase(m[1])
        min == parseFloat(<<m[2]>>)
        max == parseFloat(<<m[3]>>)
    IN  IF isNaN(min) \/ isNaN(max)
        THEN Throw(LineError(lineNumber, "Invalid number in RANGE statement."))
        ELSE IF min.v >= max.v
        THEN Throw(LineError(lineNumber, "Min value must be less than max value in RANGE statement."))
        ELSE Return([st EXCEPT !.ir.ranges[axis] = [min |-> min.v, max |-> max.v]])

\* /^COLOR\s+MAP\s+(\w+)/i
colorMapMatch(s) ==
    LET b == afterKeyword(s, afterKeyword(s, 1, "COLOR"), "MAP")
    IN  IF IsWord(At(s, b)) THEN Some(<<s[b]>>) ELSE None

colorMapStatement(st, m, lineNumber) ==
    LET mapName == toLowerCase(m[1])
    IN  IF st.colorMapFound
        THEN Throw(LineError(lineNumber, "Multiple COLOR MAP statements found. Only one is allowed."))
        ELSE IF mapName \notin VALID_COLOR_MAPS
        THEN Throw(LineError(lineNumber, "Invalid color map."))
        ELSE Return([st EXCEPT !.ir.colorMap = mapName, !.colorMapFound = TRUE])

\* /^PARTICLES\s+(\d+)/i : the digits a numeral run starts with
particlesMatch(s) ==
    LET a == afterKeyword(s, 1, "PARTICLES")
    IN  IF a > 0 /\ At(s, a) \in DOMAIN NumeralValue /\ NumeralValue[At(s, a)] >= 0
        THEN Some(<<s[a]>>) ELSE None

\* particlesStatement without the check against MAX_PARTICLES
particlesStatementNoCeiling(st, m, lineNumber) ==
    LET count == parseInt(m[1])
    IN  IF st.particlesFound
        THEN Throw(LineError(lineNumber, "Multiple PARTICLES statements found. Only one is allowed."))
        ELSE IF count <= 0
        THEN Throw(LineError(lineNumber, "Invalid particle count. Must be a positive integer."))
        ELSE Return([st EXCEPT !.ir.particles = Some([count |-> count]), !.particlesFound = TRUE])

particlesStatement(st, m, lineNumber) ==
    LET count == parseInt(m[1])
    IN  IF st.particlesFound
        THEN Throw(LineError(lineNumber, "Multiple PARTICLES statements found. Only one is allowed."))
        ELSE IF count <= 0
        THEN Throw(LineError(lineNumber, "Invalid particle count. Must be a positive integer."))
        ELSE IF count > MAX_PARTICLES
        THEN Throw(LineError(lineNumber, "Particle count exceeds the maximum limit."))
        ELSE Return([st EXCEPT !.ir.particles = Some([count |-> count]), !.particlesFound = TRUE])

\* /^CONTOUR\s+LEVELS\s+(.*)/i
contourMatch(s) ==
    LET b == afterKeyword(s, afterKeyword(s, 1, "CONTOUR"), "LEVELS")
    IN  IF b > 0 THEN Some(<<From(s, b)>>) ELSE None

contourStatement(st, m, lineNumber) ==
    LET pieces == split(m[1], ",")
        parsed == [k \in 1..Len(pieces) |-> parseFloat(trim(pieces[k]))]
        kept == SelectSeq(parsed, LAMBDA n : ~isNaN(n))
        levels == [k \in 1..Len(kept) |-> kept[k].v]
    IN  IF st.contourFound
        THEN Throw(LineError(lineNumber, "Multiple CONTOUR statements found. Only one is allowed."))
        ELSE IF Len(levels) = 0
        THEN Throw(LineError(lineNumber, "No valid numbers found in CONTOUR LEVELS statement."))
        ELSE Return([st EXCEPT !.ir.contours = Some([levels |-> levels]), !.contourFound = TRUE])

\* /^LABEL\s+(.+)\s+AT\s+([^,]+)\s*,\s*([^,]+)\s*,\s*(.*)/i
\* the greedy (.+) ends at the last AT that two commas follow
labelSplit(s, a, i) ==
    LET c1 == IndexFrom(s, ",", i + 2)
        c2 == IndexFrom(s, ",", IndexFrom(s, ",", i + 2) + 1)
    IN  IF /\ a > 0 /\ i - 2 >= a
           /\ toUpperCase(s[i]) = "AT" /\ s[i - 1] = Space /\ At(s, i + 1) = Space
           /\ c1 > i + 2 /\ c2 > c1 + 1
        THEN Some(<<SubSeq(s, a, i - 1), SubSeq(s, i + 2, c1 - 1),
                    SubSeq(s, c1 + 1, c2 - 1), From(s, c2 + 1)>>)
        ELSE None

labelMatch(s) ==
    LET ats == {i \in 1..Len(s) : labelSplit(s, afterKeyword(s, 1, "LABEL"), i) # None}
    IN  IF ats = {} THEN None
        ELSE labelSplit(s, afterKeyword(s, 1, "LABEL"), CHOOSE k \in ats : \A m \in ats : k >= m)

labelStatement(st, m, lineNumber) ==
    Return([st EXCEPT !.ir.labels =
        Append(@, [textExpr |-> trim(m[1]),
                   positionExpr |-> <<trim(m[2]), trim(m[3]), trim(m[4])>>])])

\* /^DEF\s+([^=()]+?)\s*=\s*(.*)/i
defConstMatch(s) ==
    LET a == afterKeyword(s, 1, "DEF")
        eq == IndexFrom(s, "=", 1)
        name == SubSeq(s, 3, eq - 1)
    IN  IF a > 0 /\ eq > 3 /\ \A k \in 1..Len(name) : name[k] \notin {"(", ")"}
        THEN Some(<<name, From(s, skipSpaces(s, eq + 1))>>) ELSE None

\* defConstMatch && !line.substring(0, line.indexOf('=')).includes('(')
defConstGuard(s) ==
    /\ defConstMatch(s) # None
    /\ \A k \in 1..(IndexFrom(s, "=", 1) - 1) : s[k] # "("

defConstStatement(st, m, lineNumber) ==
    LET name == Join(stripSpaces(trim(m[1])))
        body == trim(m[2])
    IN  IF toUpperCase(name) \notin (FnNames \cup VecNames \cup TensorNames)
        THEN Throw(LineError(lineNumber, "Constant definition name must start with FN, VEC, or TENSOR."))
        ELSE IF body = <<>>
        THEN Throw(LineError(lineNumber, "Constant definition cannot be empty."))
        ELSE IF HasFunction(st.ir.functions, name)
        THEN Throw(LineError(lineNumber, "Constant or function is already defined."))
        ELSE Return([st EXCEPT !.ir.functions = SetFunction(@, name, <<>>, body)])

\* /^DEF\s+(NAME)\s*\(([^)]*)\)\s*=/i up to the = sign, for the names of one prefix:
\* 0 when it does not match, else <<name, params, position after the = sign>>
defHead(s, names) ==
    LET a == afterKeyword(s, 1, "DEF")
        open == skipSpaces(s, a + 1)
        close == IndexFrom(s, ")", open + 1)
        eq == skipSpaces(s, close + 1)
    IN  IF a > 0 /\ toUpperCase(At(s, a)) \in names /\ At(s, open) = "("
           /\ close > 0 /\ At(s, eq) = "="
        THEN Some(<<s[a], SubSeq(s, open + 1, close - 1), eq + 1>>) ELSE None

\* /^DEF\s+(VEC_\w+)\s*\(([^)]*)\)\s*=\s*(.*)/i
defVecExplicitMatch(s) ==
    LET h == defHead(s, VecNames)
    IN  IF h = None THEN None ELSE Some(<<h[1][1], h[1][2], From(s, skipSpaces(s, h[1][3]))>>)

defVecExplicitStatement(st, m, lineNumber) ==
    LET name == m[1]
        params == paramList(m[2])
        body == trim(m[3])
    IN  IF ~(At(body, 1) = "[" /\ endsWith(body, "]"))
        THEN Throw(LineError(lineNumber, "Vector function body must be enclosed in square brackets []."))
        ELSE IF HasFunction(st.ir.functions, name)
        THEN Throw(LineError(lineNumber, "Function is already defined."))
        ELSE Return([st EXCEPT !.ir.functions = SetFunction(@, name, params, body)])

\* /^DEF\s+(TENSOR_\w+)\s*\(([^)]*)\)\s*=\s*(.*)/i
defTensorExplicitMatch(s) ==
    LET h == defHead(s, TensorNames)
    IN  IF h = None THEN None ELSE Some(<<h[1][1], h[1][2], From(s, skipSpaces(s, h[1][3]))>>)

defTensorExplicitStatement(st, m, lineNumber) ==
    LET name == m[1]
        params == paramList(m[2])
        body == trim(m[3])
    IN  IF ~(/\ At(body, 1) = "[" /\ At(body, 2) = "["
             /\ At(body, Len(body)) = "]" /\ At(body, Len(body) - 1) = "]")
        THEN Throw(LineError(lineNumber, "Tensor function body must be a matrix enclosed in double square brackets [[]]."))
        ELSE IF HasFunction(st.ir.functions, name)
        THEN Throw(LineError(lineNumber, "Function is already defined."))
        ELSE Return([st EXCEPT !.ir.functions = SetFunction(@, name, params, body)])

\* /^DEF\s+(FN\w+)\s*\(([^)]*)\)\s*=(.*)/i
defFnMatch(s) ==
    LET h == defHead(s, FnNames)
    IN  IF h = None THEN None ELSE Some(<<h[1][1], h[1][2], From(s, h[1][3])>>)

\* defFnStatement keeping the body as captured, without trim()
defFnStatementUntrimmed(st, m, lineNumber) ==
    IF trim(m[3]) = <<>>
    THEN Throw(LineError(lineNumber, "Function body cannot be empty."))
    ELSE Return([st EXCEPT !.ir.functions = SetFunction(@, m[1], paramList(m[2]), m[3])])

defFnStatement(st, m, lineNumber) ==
    LET name == m[1]
        params == paramList(m[2])
        body == trim(m[3])
    IN  IF body = <<>>
        THEN Throw(LineError(lineNumber, "Function body cannot be empty."))
        ELSE Return([st EXCEPT !.ir.functions = SetFunction(@, name, params, body)])

\* /^PLOT3D\s+(.*)/i
plot3dMatch(s) ==
    LET a == afterKeyword(s, 1, "PLOT3D")
    IN  IF a > 0 THEN Some(<<From(s, a)>>) ELSE None

plot3dStatement(st, m, lineNumber) ==
    LET expr == trim(m[1])
    IN  IF expr = <<>>
        THEN Throw(LineError(lineNumber, "PLOT3D expression cannot be empty."))
        ELSE Return([st EXCEPT !.ir.plots = Append(@, [type |-> "surface", expr |-> expr])])

\* /^PLOT_VECFIELD\s+(\w+)/i
plotVecFieldMatch(s) ==
    LET a == afterKeyword(s, 1, "PLOT_VECFIELD")
    IN  IF a > 0 /\ IsWord(At(s, a)) THEN Some(<<s[a]>>) ELSE None

plotVecFieldStatement(st, m, lineNumber) ==
    Return([st EXCEPT !.ir.plots = Append(@, [type |-> "vector", fnName |-> m[1]])])

\* /^PLOT_TENSOR\s+(\w+)\s+AS\s+GLYPH\s+'(ELLIPSOID)'/i
plotTensorMatch(s) ==
    LET a == afterKeyword(s, 1, "PLOT_TENSOR")
        d == afterKeyword(s, afterKeyword(s, afterWord(s, afterKeyword(s, 1, "PLOT_TENSOR")), "AS"), "GLYPH")
    IN  IF d > 0 /\ At(s, d) = "'" /\ At(s, d + 1) \in {"ELLIPSOID", "ellipsoid"} /\ At(s, d + 2) = "'"
        THEN Some(<<s[a], s[d + 1]>>) ELSE None

plotTensorStatement(st, m, lineNumber) ==
    Return([st EXCEPT !.ir.plots =
        Append(@, [type |-> "tensor", fnName |-> m[1], glyphType |-> "ELLIPSOID"])])

\* /^ANIMATE\s+(\w+)\s+FROM\s+(.+?)\s+TO\s+(.+?)\s+STEP\s+(.+)/i
\* the lazy groups end at the first TO and at the first STEP after it
animateMatch(s) ==
    LET a == afterKeyword(s, 1, "ANIMATE")
        c == afterKeyword(s, afterWord(s, afterKeyword(s, 1, "ANIMATE")), "FROM")
        to == keywordAfter(s, c, "TO")
        step == keywordAfter(s, afterKeyword(s, to, "TO"), "STEP")
    IN  IF step > 0 /\ afterKeyword(s, step, "STEP") <= Len(s)
        THEN Some(<<s[a], SubSeq(s, c, to - 2), SubSeq(s, afterKeyword(s, to, "TO"), step - 2),
                    From(s, afterKeyword(s, step, "STEP"))>>)
        ELSE None

\* the checks on from, to and step, each None (evaluate threw) or Some(value)
animateChecked(st, m, lineNumber, from, to, step) ==
        IF from = None \/ to = None \/ step = None
        THEN Throw(LineError(lineNumber, "Invalid animation parameters."))
        ELSE IF \/ ~IsNumber(from[1]) \/ ~IsNumber(to[1]) \/ ~IsNumber(step[1])
                \/ isNaN(from[1]) \/ isNaN(to[1]) \/ isNaN(step[1])
        THEN Throw(LineError(lineNumber, "Animation parameters must evaluate to valid numbers."))
        ELSE IF step[1].v <= 0
        THEN Throw(LineError(lineNumber, "STEP value must be positive."))
        ELSE Return([st EXCEPT
                 !.ir.animation = Some([parameter |-> m[1], from |-> from[1].v,
                                        to |-> to[1].v, step |-> step[1].v]),
                 !.animationFound = TRUE])

animateEvaluated(st, m, lineNumber, scope) ==
    animateChecked(st, m, lineNumber,
                   evaluate(scope, m[2]), evaluate(scope, m[3]), evaluate(scope, m[4]))

\* animateStatement without the check of animationFound
animateStatementRepeatable(st, m, lineNumber) ==
    animateEvaluated(st, m, lineNumber, createConfiguredMathParser(st.ir.functions).scope)

animateStatement(st, m, lineNumber) ==
    IF st.animationFound
    THEN Throw(LineError(lineNumber, "Multiple ANIMATE statements found. Only one is allowed."))
    ELSE animateEvaluated(st, m, lineNumber, createConfiguredMathParser(st.ir.functions).scope)

-----------------------------------------------------------------------------
(* parser.ts: parseG3D *)

\* the callback of lines.forEach for one line: the first statement that matches
processLine(st, s, lineNumber) ==
    IF rangeMatch(s) # None THEN rangeStatement(st, rangeMatch(s)[1], lineNumber)
    ELSE IF colorMapMatch(s) # None THEN colorMapStatement(st, colorMapMatch(s)[1], lineNumber)
    ELSE IF particlesMatch(s) # None THEN particlesStatement(st, particlesMatch(s)[1], lineNumber)
    ELSE IF contourMatch(s) # None THEN contourStatement(st, contourMatch(s)[1], lineNumber)
    ELSE IF labelMatch(s) # None THEN labelStatement(st, labelMatch(s)[1], lineNumber)
    ELSE IF defConstGuard(s) THEN defConstStatement(st, defConstMatch(s)[1], lineNumber)
    ELSE IF defVecExplicitMatch(s) # None
         THEN defVecExplicitStatement(st, defVecExplicitMatch(s)[1], lineNumber)
    ELSE IF defTensorExplicitMatch(s) # None
         THEN defTensorExplicitStatement(st, defTensorExplicitMatch(s)[1], lineNumber)
    ELSE IF defFnMatch(s) # None THEN defFnStatement(st, defFnMatch(s)[1], lineNumber)
    ELSE IF plot3dMatch(s) # None THEN plot3dStatement(st, plot3dMatch(s)[1], lineNumber)
    ELSE IF plotVecFieldMatch(s) # None
         THEN plotVecFieldStatement(st, plotVecFieldMatch(s)[1], lineNumber)
    ELSE IF plotTensorMatch(s) # None
         THEN plotTensorStatement(st, plotTensorMatch(s)[1], lineNumber)
    ELSE IF animateMatch(s) # None THEN animateStatement(st, animateMatch(s)[1], lineNumber)
    ELSE Throw(LineError(lineNumber, "Unknown or invalid statement"))

\* const lineNumber = index + 1
lineNumberOf(index) == index + 1

RECURSIVE forEachLine(_, _, _)
\* what follows the callback's outcome r for the line at position k: the error it threw,
\* with the logical line that threw (history), or the rest of the lines
afterLine(lines, k, st, r) ==
    IF r.thrown # None
    THEN [thrown |-> r.thrown, st |-> st, at |-> Some(lines[k])]
    ELSE forEachLine(lines, k + 1, r.st)

\* lines.forEach((line, index) => ...) from the 1-based position k on: the locals after
\* the last line, or the first error thrown
forEachLine(lines, k, st) ==
    IF k > Len(lines)
    THEN [thrown |-> None, st |-> st, at |-> None]
    ELSE afterLine(lines, k, st, processLine(st, lines[k].text, lineNumberOf(k - 1)))

\* ensureSurface without the implicit flat surface
ensureSurfaceNoImplicit(ir) ==
    IF ir.plots # <<>>
    THEN [thrown |-> None, ir |-> ir, at |-> None]
    ELSE [thrown |-> Some(PlainError("No PLOT3D, PLOT_VECFIELD, or PLOT_TENSOR statement found. Nothing to render.")),
          ir |-> InitialIR, at |-> None]

\* if (!ir.plots.some(p => p.type === 'surface')) ... return ir
ensureSurface(ir) ==
    IF \E k \in 1..Len(ir.plots) : ir.plots[k].type = "surface"
    THEN [thrown |-> None, ir |-> ir, at |-> None]
    ELSE IF \E k \in 1..Len(ir.plots) : ir.plots[k].type \in {"vector", "tensor"}
    THEN [thrown |-> None, at |-> None,
          ir |-> [ir EXCEPT !.plots = <<[type |-> "surface", expr |-> <<"0">>]>> \o @]]
    ELSE [thrown |-> Some(PlainError("No PLOT3D, PLOT_VECFIELD, or PLOT_TENSOR statement found. Nothing to render.")),
          ir |-> InitialIR, at |-> None]

\* the end of parseG3D, given the outcome of the walk over the lines
afterLines(walked) ==
    IF walked.thrown # None
    THEN [thrown |-> walked.thrown, ir |-> InitialIR, at |-> walked.at]
    ELSE ensureSurface(walked.st.ir)

\* parseG3D(code): [thrown |-> Some(error)], or [thrown |-> None, ir |-> the IR returned];
\* at is history: the logical line whose statement threw
parseG3D(code) == afterLines(forEachLine(logicalLines(code), 1, InitialParse))

-----------------------------------------------------------------------------
(* The lines the editor's user types, and the texts pasted whole *)

\* an empty line
BlankLine == <<>>
\* # note
CommentLine == <<"#", " note">>
\* PLOT3D FNA(x,y)
Plot3dLine == <<"PLOT3D", " ", "FNA", "(", "x", ",", "y", ")">>
\* PLOT3D FNB # the surface
Plot3dCommentLine == <<"PLOT3D", " ", "FNB", " ", "#", " the surface">>
\* PLOT3D \
Plot3dBackslashLine == <<"PLOT3D", " ", "\\">>
\* BOGUS
BogusLine == <<"BOGUS">>
\* + 1
WrapLine == <<"+", " ", "1">>
\* DEF FNA(x,y) = x
DefFnALine == <<"DEF", " ", "FNA", "(", "x", ",", "y", ")", " ", "=", " ", "x">>
\* DEF FNA(x,y) = y
DefFnAAgainLine == <<"DEF", " ", "FNA", "(", "x", ",", "y", ")", " ", "=", " ", "y">>
\* DEF FNA = 1
DefConstALine == <<"DEF", " ", "FNA", " ", "=", " ", "1">>
\* DEF FNB = 2
DefConstBLine == <<"DEF", " ", "FNB", " ", "=", " ", "2">>
\* DEF VEC_V(x,y) = [x, y, 0]
DefVec3Line == <<"DEF", " ", "VEC_V", "(", "x", ",", "y", ")", " ", "=", " ", "[", "x", ",", " ", "y", ",", " ", "0", "]">>
\* DEF VEC_V(x,y) = [x, y]
DefVec2Line == <<"DEF", " ", "VEC_V", "(", "x", ",", "y", ")", " ", "=", " ", "[", "x", ",", " ", "y", "]">>
\* DEF VEC_V(x,y) = x
DefVecBareLine == <<"DEF", " ", "VEC_V", "(", "x", ",", "y", ")", " ", "=", " ", "x">>
\* DEF TENSOR_T(x,y) = [[x, y], [y, x]]
DefTensor22Line == <<"DEF", " ", "TENSOR_T", "(", "x", ",", "y", ")", " ", "=", " ", "[", "[", "x", ",", " ", "y", "]", ",", " ", "[", "y", ",", " ", "x", "]", "]">>
\* DEF TENSOR_T(x,y) = [[x]]
DefTensor1Line == <<"DEF", " ", "TENSOR_T", "(", "x", ",", "y", ")", " ", "=", " ", "[", "[", "x", "]", "]">>
\* DEF TENSOR_T(x,y) = [x, y]
DefTensorFlatLine == <<"DEF", " ", "TENSOR_T", "(", "x", ",", "y", ")", " ", "=", " ", "[", "x", ",", " ", "y", "]">>
\* PLOT_VECFIELD VEC_V
PlotVecFieldLine == <<"PLOT_VECFIELD", " ", "VEC_V">>
\* PLOT_TENSOR TENSOR_T AS GLYPH 'ELLIPSOID'
PlotTensorLine == <<"PLOT_TENSOR", " ", "TENSOR_T", " ", "AS", " ", "GLYPH", " ", "'", "ELLIPSOID", "'">>
\* SET RANGE X -2 TO 2
RangeXLine == <<"SET", " ", "RANGE", " ", "X", " ", "-2", " ", "TO", " ", "2">>
\* set range y 1-2 to 3
RangeLowerCaseLine == <<"set", " ", "range", " ", "y", " ", "1-2", " ", "to", " ", "3">>
\* SET RANGE Y 2 TO -2
RangeSwappedLine == <<"SET", " ", "RANGE", " ", "Y", " ", "2", " ", "TO", " ", "-2">>
\* SET RANGE Z 1 TO 1
RangeEqualLine == <<"SET", " ", "RANGE", " ", "Z", " ", "1", " ", "TO", " ", "1">>
\* SET RANGE X - TO 2
RangeNaNLine == <<"SET", " ", "RANGE", " ", "X", " ", "-", " ", "TO", " ", "2">>
\* PARTICLES 500
Particles500Line == <<"PARTICLES", " ", "500">>
\* PARTICLES 5000
Particles5000Line == <<"PARTICLES", " ", "5000">>
\* PARTICLES 5001
Particles5001Line == <<"PARTICLES", " ", "5001">>
\* PARTICLES 99999
Particles99999Line == <<"PARTICLES", " ", "99999">>
\* PARTICLES 0
Particles0Line == <<"PARTICLES", " ", "0">>
\* ANIMATE t FROM 0 TO 6 STEP 1
AnimateLine == <<"ANIMATE", " ", "t", " ", "FROM", " ", "0", " ", "TO", " ", "6", " ", "STEP", " ", "1">>
\* ANIMATE t FROM 0 TO FNB STEP 1
AnimateConstLine == <<"ANIMATE", " ", "t", " ", "FROM", " ", "0", " ", "TO", " ", "FNB", " ", "STEP", " ", "1">>
\* ANIMATE t FROM 0 TO 6 STEP 0
AnimateStep0Line == <<"ANIMATE", " ", "t", " ", "FROM", " ", "0", " ", "TO", " ", "6", " ", "STEP", " ", "0">>
\* CONTOUR LEVELS 0, 1
ContourLine == <<"CONTOUR", " ", "LEVELS", " ", "0", ",", " ", "1">>
\* CONTOUR LEVELS a
ContourNoneLine == <<"CONTOUR", " ", "LEVELS", " ", "a">>
\* COLOR MAP plasma
ColorMapLine == <<"COLOR", " ", "MAP", " ", "plasma">>
\* LABEL "A" AT 1, 2, 3
LabelLine == <<"LABEL", " ", "\"", "A", "\"", " ", "AT", " ", "1", ",", " ", "2", ",", " ", "3">>

\* the five-line saddle program
SaddleProgram == <<
    <<"SET", " ", "RANGE", " ", "X", " ", "-2", " ", "TO", " ", "2">>,
    <<"SET", " ", "RANGE", " ", "Y", " ", "-2", " ", "TO", " ", "2">>,
    <<"SET", " ", "RANGE", " ", "Z", " ", "-4", " ", "TO", " ", "4">>,
    <<"DEF", " ", "FNSADDLE", "(", "x", ",", "y", ")", " ", "=", " ", "x", "^", "2", " ", "-", " ", "y", "^", "2">>,
    <<"PLOT3D", " ", "FNSADDLE", "(", "x", ",", "y", ")">>
>>

\* "".split('\n'): the empty text is one empty line
EmptyText == <<BlankLine>>

PastedTexts == {EmptyText, SaddleProgram, DEFAULT_G3D_CODE}

HostLines == {CommentLine, Plot3dLine, PlotVecFieldLine, PlotTensorLine, BogusLine,
              DefVec3Line, RangeSwappedLine}
LayoutLines == {BlankLine, CommentLine, DefFnALine, WrapLine, Plot3dBackslashLine,
                BogusLine, Plot3dCommentLine}
RangeLines == {RangeXLine, RangeLowerCaseLine, RangeSwappedLine, RangeEqualLine,
               RangeNaNLine, Plot3dLine, PlotVecFieldLine}
NameLines == {DefFnALine, DefFnAAgainLine, DefConstALine, DefConstBLine, DefVec3Line,
              Plot3dLine, PlotVecFieldLine}
ShapeLines == {DefVec3Line, DefVec2Line, DefVecBareLine, DefTensor22Line, DefTensor1Line,
               DefTensorFlatLine, PlotVecFieldLine}
OnceLines == {AnimateLine, AnimateConstLine, AnimateStep0Line, ContourLine, ContourNoneLine,
              DefConstBLine, Plot3dLine}
ParticleLines == {Particles500Line, Particles5000Line, Particles5001Line, Particles99999Line,
                  Particles0Line, Plot3dLine, CommentLine}

-----------------------------------------------------------------------------
(* App.tsx: the host *)

\* showParse without the catch's setGraphData(null)
showParseKeepingIR(r) ==
    IF r.thrown = None
    THEN graphData' = Some(r.ir) /\ error' = None
    ELSE error' = Some(r.thrown[1]) /\ graphData' = graphData

\* the try and the catch of handleParse, given what parseG3D did
showParse(r) ==
    IF r.thrown = None
    THEN graphData' = Some(r.ir) /\ error' = None
    ELSE error' = Some(r.thrown[1]) /\ graphData' = None

\* handleParse, on the text its closure holds
handleParse(code) == showParse(parseG3D(code))

\* an effect without its cleanup: a pending timeout stays as it is
setCodeKeepingTimeout(text) ==
    /\ text # g3dCode
    /\ g3dCode' = text
    /\ debounceTimeout' = IF debounceTimeout = None THEN Some(text) ELSE debounceTimeout
    /\ UNCHANGED <<graphData, error, parsedCode, lastParse>>
    /\ UNCHANGED <<simVars, evalVars, geoVars, fxVars>>

\* setG3dCode(text), and the effect it triggers: the pending timeout is cleared and a
\* new one is set, whose handleParse holds the new text
setCode(text) ==
    /\ text # g3dCode
    /\ g3dCode' = text
    /\ debounceTimeout' = Some(text)
    /\ UNCHANGED <<graphData, error, parsedCode, lastParse>>
    /\ UNCHANGED <<simVars, evalVars, geoVars, fxVars>>

\* the user adds a line at the end of the text
TypeLine(l) ==
    /\ Len(g3dCode) < MaxLines
    /\ setCode(IF g3dCode = EmptyText THEN <<l>> ELSE Append(g3dCode, l))

\* the user replaces one whole text by another
ReplaceCode(text) ==
    /\ g3dCode \in PastedTexts
    /\ setCode(text)

\* the timeout fires after 500 ms without a change of the text
TimeoutFires ==
    /\ debounceTimeout # None
    /\ handleParse(debounceTimeout[1])
    /\ parsedCode' = debounceTimeout
    /\ lastParse' = Some([lines |-> logicalLines(debounceTimeout[1]),
                        result |-> parseG3D(debounceTimeout[1])])
    /\ debounceTimeout' = None
    /\ UNCHANGED g3dCode
    /\ UNCHANGED <<simVars, evalVars, geoVars, fxVars>>

\* App after the first render: the effect has set the first timeout
HostInit ==
    /\ g3dCode = DEFAULT_G3D_CODE
    /\ graphData = None
    /\ error = None
    /\ debounceTimeout = Some(DEFAULT_G3D_CODE)
    /\ parsedCode = None
    /\ lastParse = None

\* no ParticleSystem is mounted while graphData is null
SimIdle ==
    /\ props = None
    /\ particles = <<>>
    /\ initializeRef = FALSE
    /\ stepLog = [frames |-> 0, trailLength |-> 0, bounced |-> <<>>, pushed |-> <<>>]

EvalIdle == binder = None /\ evaluator = None /\ sampler = None
GeoIdle == geodesic = None

\* the parts of the scene below are idle but the ones named
FxIdleBut(names) ==
    /\ IF "contour" \in names THEN TRUE ELSE contour = None
    /\ IF "fieldline" \in names THEN TRUE ELSE fieldline = None
    /\ IF "physics" \in names THEN TRUE ELSE physics = None
    /\ IF "animation" \in names THEN TRUE ELSE animation = None
    /\ IF "measurement" \in names THEN TRUE ELSE measurement = None
    /\ IF "lyapunov" \in names THEN TRUE ELSE lyapunov = None
    /\ IF "gradientCache" \in names THEN TRUE ELSE gradientCache = None
FxIdle == FxIdleBut({})

\* a step of the part named leaves every other part alone
OnlyChanges(name) ==
    /\ UNCHANGED <<hostVars, simVars, evalVars, geoVars>>
    /\ IF name = "contour" THEN TRUE ELSE UNCHANGED contour
    /\ IF name = "fieldline" THEN TRUE ELSE UNCHANGED fieldline
    /\ IF name = "physics" THEN TRUE ELSE UNCHANGED physics
    /\ IF name = "animation" THEN TRUE ELSE UNCHANGED animation
    /\ IF name = "measurement" THEN TRUE ELSE UNCHANGED measurement
    /\ IF name = "lyapunov" THEN TRUE ELSE UNCHANGED lyapunov
    /\ IF name = "gradientCache" THEN TRUE ELSE UNCHANGED gradientCache
SceneIdle == HostInit /\ SimIdle /\ EvalIdle /\ GeoIdle

Init == SceneIdle /\ FxIdle

NextWith(lines) ==
    \/ \E l \in lines : TypeLine(l)
    \/ \E text \in PastedTexts : ReplaceCode(text)
    \/ TimeoutFires

Next == NextWith(HostLines)
NextLayout == NextWith(LayoutLines)
NextRange == NextWith(RangeLines)
NextName == NextWith(NameLines)
NextShape == NextWith(ShapeLines)
NextOnce == NextWith(OnceLines)
NextParticle == NextWith(ParticleLines)

Spec == Init /\ [][Next]_vars
SpecLayout == Init /\ [][NextLayout]_vars
SpecRange == Init /\ [][NextRange]_vars
SpecName == Init /\ [][NextName]_vars
SpecShape == Init /\ [][NextShape]_vars
SpecOnce == Init /\ [][NextOnce]_vars
SpecParticle == Init /\ [][NextParticle]_vars

-----------------------------------------------------------------------------
(* JavaScript numbers of the scene, in thousandths (2.5 is 2500).  An      *)
(* integer of -MaxFloat..MaxFloat is a finite number, MaxFloat standing for *)
(* Number.MAX_VALUE: a result beyond it overflows to Infinity.  A product   *)
(* is rounded towards zero.                                                 *)

MaxFloat == 30000

Infinity == MaxFloat + 1
NotANumber == MaxFloat + 2

isFinite(a) == a \notin {Infinity, -Infinity, NotANumber}

\* the number a finite result is stored as
stored(n) == IF n > MaxFloat THEN Infinity ELSE IF n < -MaxFloat THEN -Infinity ELSE n

truncated(n, d) == IF n >= 0 THEN n \div d ELSE -((-n) \div d)

\* -a, a + b, a - b
fNeg(a) == IF a = NotANumber THEN NotANumber ELSE -a
fAdd(a, b) ==
    IF a = NotANumber \/ b = NotANumber THEN NotANumber
    ELSE IF ~isFinite(a) /\ ~isFinite(b) THEN IF a = b THEN a ELSE NotANumber
    ELSE IF ~isFinite(a) THEN a
    ELSE IF ~isFinite(b) THEN b
    ELSE stored(a + b)
fSub(a, b) == fAdd(a, fNeg(b))

\* a * b
fMul(a, b) ==
    IF a = NotANumber \/ b = NotANumber THEN NotANumber
    ELSE IF ~isFinite(a) \/ ~isFinite(b)
    THEN IF a = 0 \/ b = 0 THEN NotANumber
         ELSE IF (a > 0) = (b > 0) THEN Infinity ELSE -Infinity
    ELSE stored(truncated(a * b, 1000))

\* a / d for a finite divisor d > 0
fDiv(a, d) ==
    IF ~isFinite(a) THEN a ELSE stored(truncated(a * 1000, d))

\* a / b
fQuot(a, b) ==
    IF a = NotANumber \/ b = NotANumber THEN NotANumber
    ELSE IF ~isFinite(a) THEN IF ~isFinite(b) THEN NotANumber
                              ELSE IF (a > 0) = (b >= 0) THEN Infinity ELSE -Infinity
    ELSE IF ~isFinite(b) THEN 0
    ELSE IF b = 0 THEN IF a = 0 THEN NotANumber ELSE IF a > 0 THEN Infinity ELSE -Infinity
    ELSE IF (a >= 0) = (b > 0)
    THEN stored(truncated((IF a >= 0 THEN a ELSE -a) * 1000, IF b > 0 THEN b ELSE -b))
    ELSE stored(-truncated((IF a >= 0 THEN a ELSE -a) * 1000, IF b > 0 THEN b ELSE -b))

\* a > b, a >= b: false when either is NaN
fGt(a, b) == a # NotANumber /\ b # NotANumber /\ a > b
fGe(a, b) == a # NotANumber /\ b # NotANumber /\ a >= b

\* Math.abs(a), Math.sign(a)
fAbs(a) == IF a = NotANumber THEN NotANumber ELSE IF a < 0 THEN -a ELSE a
fSign(a) == IF a = NotANumber THEN NotANumber ELSE IF a > 0 THEN 1000 ELSE IF a < 0 THEN -1000 ELSE 0

-----------------------------------------------------------------------------
(* Viewport: potentialFn, the surface the particles and the fields sample.  *)
(* The evaluator is modelled on the plot expressions of PlotExprs.          *)

\* 0 ; x ; 1/x ; 0/x - 1 ; FNMISSING(x,y) ; 1e308 * STEP(2.018, y)
PlotExprs == {"0", "x", "1/x", "0/x-1", "FNMISSING(x,y)", "1e308*STEP(2.018,y)"}

\* mathParser.evaluate(plotExpr) with x and y set: None when it throws, else Some(z)
evaluatePlot(plotExpr, x, y) ==
    CASE plotExpr = "0" -> Some(0)
      [] plotExpr = "x" -> Some(x)
      [] plotExpr = "1/x" ->
            Some(IF x = NotANumber THEN NotANumber
                 ELSE IF x = 0 THEN Infinity
                 ELSE IF ~isFinite(x) THEN 0
                 ELSE stored(truncated(1000 * 1000, x)))
      [] plotExpr = "0/x-1" ->
            Some(IF x = NotANumber \/ x = 0 THEN NotANumber ELSE -1000)
      [] plotExpr = "FNMISSING(x,y)" -> None
      [] plotExpr = "6*x" -> Some(fMul(6000, x))
      [] plotExpr = "1e308*STEP(2.018,y)" -> Some(IF fGe(y, 2018) THEN MaxFloat ELSE 0)

\* return isNaN(z) || !isFinite(z) ? 0 : z, and 0 from the catch
potentialFn(plotExpr, x, y) ==
    IF evaluatePlot(plotExpr, x, y) = None THEN 0
    ELSE IF ~isFinite(evaluatePlot(plotExpr, x, y)[1]) THEN 0
    ELSE evaluatePlot(plotExpr, x, y)[1]

-----------------------------------------------------------------------------
(* ParticleSystem.tsx.  A particle is [id, x, y, vx, vy, trail]; the props  *)
(* are [count, plotExpr, xRange, yRange, showTrails, damping,               *)
(* forceCoupling, trailLength].                                             *)

EXCEPTIONAL_POINTS ==
    << [x |-> 3000, y |-> 2000], [x |-> -2000, y |-> 4000],
       [x |-> -4000, y |-> -3000], [x |-> 2000, y |-> -4000] >>

\* the values Math.random() gives a spawn: the radius 1.0 + r * 1.5 and the cosine and
\* sine of the angle r * 2 * PI, here for the angles 0 and PI / 2
SpawnDraws ==
    {[radius |-> r, cos |-> a[1], sin |-> a[2]] : r \in {1000, 2000}, a \in {<<1000, 0>>, <<0, 1000>>}}

\* EXCEPTIONAL_POINTS[id % EXCEPTIONAL_POINTS.length]
anchorOf(id) == EXCEPTIONAL_POINTS[(id % Len(EXCEPTIONAL_POINTS)) + 1]

spawnParticle(id, draw) ==
    [id |-> id,
     x |-> fAdd(anchorOf(id).x, fMul(draw.radius, draw.cos)),
     y |-> fAdd(anchorOf(id).y, fMul(draw.radius, draw.sin)),
     vx |-> fMul(-500, draw.sin),
     vy |-> fMul(500, draw.cos),
     trail |-> <<>>]

\* central differences with h = 0.01
computeGradient(plotExpr, x, y) ==
    [dx |-> fDiv(fSub(potentialFn(plotExpr, fAdd(x, 10), y),
                      potentialFn(plotExpr, fSub(x, 10), y)), 20),
     dy |-> fDiv(fSub(potentialFn(plotExpr, x, fAdd(y, 10)),
                      potentialFn(plotExpr, x, fSub(y, 10))), 20)]

\* -damping * v - forceCoupling * g
acceleration(P, v, g) == fSub(fMul(fNeg(P.damping), v), fMul(P.forceCoupling, g))

\* c + v * dt + 0.5 * a * dt * dt
advanced(c, v, a, dt) == fAdd(fAdd(c, fMul(v, dt)), fMul(fMul(fMul(500, a), dt), dt))

\* new_x, new_y, pred_vx, pred_vy and ax1, ay1, given grad1
predictor(p, P, dt, grad1) ==
    [x |-> advanced(p.x, p.vx, acceleration(P, p.vx, grad1.dx), dt),
     y |-> advanced(p.y, p.vy, acceleration(P, p.vy, grad1.dy), dt),
     vx |-> fAdd(p.vx, fMul(acceleration(P, p.vx, grad1.dx), dt)),
     vy |-> fAdd(p.vy, fMul(acceleration(P, p.vy, grad1.dy), dt)),
     ax |-> acceleration(P, p.vx, grad1.dx),
     ay |-> acceleration(P, p.vy, grad1.dy)]

\* p.vx += 0.5 * (ax1 + ax2) * dt ... p.x = new_x, given the predictor and grad2
corrector(p, P, dt, pred, grad2) ==
    [p EXCEPT
        !.vx = fAdd(@, fMul(fMul(500, fAdd(pred.ax, acceleration(P, pred.vx, grad2.dx))), dt)),
        !.vy = fAdd(@, fMul(fMul(500, fAdd(pred.ay, acceleration(P, pred.vy, grad2.dy))), dt)),
        !.x = pred.x,
        !.y = pred.y]

corrected(p, P, dt, pred) ==
    corrector(p, P, dt, pred, computeGradient(P.plotExpr, pred.x, pred.y))

\* the velocity Verlet update of one particle
integrate(p, P, dt) ==
    corrected(p, P, dt, predictor(p, P, dt, computeGradient(P.plotExpr, p.x, p.y)))

\* if (Math.abs(p.x) > xRange.max) { p.x = Math.sign(p.x) * xRange.max; p.vx *= -0.8; }
\* and the same for y
bounce(p, P) ==
    [p EXCEPT
        !.x = IF fGt(fAbs(p.x), P.xRange.max) THEN fMul(fSign(p.x), P.xRange.max) ELSE @,
        !.vx = IF fGt(fAbs(p.x), P.xRange.max) THEN fMul(@, -800) ELSE @,
        !.y = IF fGt(fAbs(p.y), P.yRange.max) THEN fMul(fSign(p.y), P.yRange.max) ELSE @,
        !.vy = IF fGt(fAbs(p.y), P.yRange.max) THEN fMul(@, -800) ELSE @]

\* the condition of the safety respawn
needsRespawn(p) == ~isFinite(p.x) \/ ~isFinite(p.y)

\* if (!isFinite(p.x) || !isFinite(p.y)) { ... p.trail = [] }
respawn(p, draw) ==
    IF needsRespawn(p)
    THEN spawnParticle(p.id, draw)
    ELSE p

\* new THREE.Vector3(p.x, z + 0.1, -p.y)
trailPoint(p, P) == <<p.x, fAdd(potentialFn(P.plotExpr, p.x, p.y), 100), fNeg(p.y)>>

\* push, and one shift when the trail is longer than trailLength; no trail when hidden
manageTrail(p, P) ==
    IF P.showTrails
    THEN [p EXCEPT !.trail = IF Len(@) + 1 > P.trailLength
                             THEN Tail(Append(@, trailPoint(p, P)))
                             ELSE Append(@, trailPoint(p, P))]
    ELSE [p EXCEPT !.trail = <<>>]

\* the callback of particles.forEach, for the draw Math.random() gives a respawn
stepParticle(p, P, dt, draw) == manageTrail(respawn(bounce(integrate(p, P, dt), P), draw), P)

\* history of the last physics frame: the number of such frames, the trailLength it ran
\* with, each particle after its boundary conditions, and, for each particle, the points
\* pushed on its trail since the trail was last emptied
LogOf(frames, cap, bounced, pushed) ==
    [frames |-> frames, trailLength |-> cap, bounced |-> bounced, pushed |-> pushed]

pushedAfter(old, p, P, dt, draw) ==
    IF ~P.showTrails THEN <<>>
    ELSE Append(IF needsRespawn(bounce(integrate(p, P, dt), P)) THEN <<>> ELSE old,
                trailPoint(respawn(bounce(integrate(p, P, dt), P), draw), P))

\* useFrame((_, delta) => ...): the first frame only places the particles; every other
\* frame steps each of them.  The particles that respawn in one frame share the draw.
useFrame(delta, draw) ==
    /\ props # None
    /\ IF ~initializeRef
       THEN initializeRef' = TRUE /\ UNCHANGED <<particles, stepLog>>
       ELSE /\ particles' = [i \in 1..Len(particles) |->
                                stepParticle(particles[i], props[1], IF delta < 16 THEN delta ELSE 16, draw)]
            /\ stepLog' = LogOf(stepLog.frames + 1, props[1].trailLength,
                                [i \in 1..Len(particles) |->
                                    bounce(integrate(particles[i], props[1],
                                                     IF delta < 16 THEN delta ELSE 16), props[1])],
                                [i \in 1..Len(particles) |->
                                    pushedAfter(stepLog.pushed[i], particles[i], props[1],
                                                IF delta < 16 THEN delta ELSE 16, draw)])
            /\ UNCHANGED initializeRef
    /\ UNCHANGED <<props, hostVars, evalVars, geoVars, fxVars>>

\* the Trail Length slider of the controls panel
SetTrailLength(n) ==
    /\ props # None
    /\ n # props[1].trailLength
    /\ props' = Some([props[1] EXCEPT !.trailLength = n])
    /\ UNCHANGED <<particles, initializeRef, stepLog, hostVars, evalVars, geoVars, fxVars>>

\* the particle trails switch of the effects
ToggleTrails ==
    /\ props # None
    /\ props' = Some([props[1] EXCEPT !.showTrails = ~@])
    /\ UNCHANGED <<particles, initializeRef, stepLog, hostVars, evalVars, geoVars, fxVars>>

\* the ranges an IR can hold (min < max), and the values of the sliders used
RangesOfIR == {[min |-> -8000, max |-> 8000], [min |-> -2000, max |-> 5000],
               [min |-> -5000, max |-> -1000]}
TrailLengths == {10, 20, 50}

MaxFrames == 3
MaxTrailFrames == 13

\* ParticleSystem mounted with props P: the effect on [count] has spawned the particles
Mounted(P, draws) ==
    /\ HostInit /\ EvalIdle /\ GeoIdle /\ FxIdle
    /\ props = Some(P)
    /\ particles = [i \in 1..P.count |-> spawnParticle(i - 1, draws[i])]
    /\ initializeRef = FALSE
    /\ stepLog = LogOf(0, P.trailLength, <<>>, [i \in 1..P.count |-> <<>>])

\* the controls and effects App starts with
DefaultProps(count, plotExpr, xRange, yRange) ==
    [count |-> count, plotExpr |-> plotExpr, xRange |-> xRange, yRange |-> yRange,
     showTrails |-> TRUE, damping |-> 500, forceCoupling |-> 2000, trailLength |-> 50]

InitIntegrator ==
    \E count \in {1, 2}, plotExpr \in {"0", "x", "1e308*STEP(2.018,y)"},
       xRange \in RangesOfIR, yRange \in RangesOfIR \ {[min |-> -5000, max |-> -1000]} :
        \E draws \in [1..count -> SpawnDraws] :
            Mounted(DefaultProps(count, plotExpr, xRange, yRange), draws)

InitTrail ==
    \E draws \in [1..1 -> SpawnDraws] :
        Mounted(DefaultProps(1, "0", [min |-> -8000, max |-> 8000], [min |-> -8000, max |-> 8000]),
                draws)

NextIntegrator ==
    \E delta \in {8, 33}, draw \in SpawnDraws :
        stepLog.frames < MaxFrames /\ useFrame(delta, draw)

NextTrail ==
    \/ \E draw \in SpawnDraws : stepLog.frames < MaxTrailFrames /\ useFrame(16, draw)
    \/ \E n \in TrailLengths : SetTrailLength(n)
    \/ ToggleTrails

SpecIntegrator == InitIntegrator /\ [][NextIntegrator]_vars
SpecTrail == InitTrail /\ [][NextTrail]_vars

-----------------------------------------------------------------------------
(* math-parser.ts: the binding loop of createConfiguredMathParser, pass by  *)
(* pass.  boundInPass is history: how many functions each pass bound.       *)

MaxFunctions == 3

\* DEF FNA = 2, DEF FNA = FNB, ... and DEF FNSADDLE(x,y) = x, DEF FNSADDLE(x,y) = FNA
BinderDefinitions ==
    {[name |-> n, params |-> <<>>, body |-> <<b>>] :
        n \in {"FNA", "FNB", "FNPI"}, b \in {"2", "FNA", "FNB", "FNPI", "FNSADDLE"}}
    \cup {[name |-> "FNSADDLE", params |-> <<"x", "y">>, body |-> <<b>>] : b \in {"x", "FNA"}}

RECURSIVE FunctionLists(_)
\* the functions of an IR, in the order of their DEF statements: at most n, no name twice
FunctionLists(n) ==
    IF n = 0 THEN {<<>>}
    ELSE FunctionLists(n - 1) \cup
         {Append(q[1], q[2]) :
             q \in {r \in FunctionLists(n - 1) \X BinderDefinitions :
                        Len(r[1]) = n - 1 /\ ~HasFunction(r[1], r[2].name)}}

\* the names of a list of functions
namesOf(functions) == {functions[k].name : k \in 1..Len(functions)}

\* a loop of one pass only
enterLoopSinglePass(functions) ==
    [functions |-> functions, scope |-> <<>>, remaining |-> functions,
     changedInLastPass |-> TRUE, passes |-> 0, maxPasses |-> 1,
     boundInPass |-> <<>>, returned |-> FALSE, reported |-> {}]

\* const remainingFunctions = { ...functions }; let changedInLastPass = true; ...
enterLoop(functions) ==
    [functions |-> functions, scope |-> <<>>, remaining |-> functions,
     changedInLastPass |-> TRUE, passes |-> 0, maxPasses |-> Len(functions) + 1,
     boundInPass |-> <<>>, returned |-> FALSE, reported |-> {}]

\* the state of the loop after a pass that gave p
afterPass(b, p) ==
    [b EXCEPT !.scope = p.scope, !.remaining = p.remaining,
              !.changedInLastPass = p.changed, !.passes = @ + 1,
              !.boundInPass = Append(@, Len(b.remaining) - Len(p.remaining))]

\* one turn of the while loop
BindingPass ==
    /\ binder # None
    /\ ~binder[1].returned
    /\ loopContinues(binder[1].remaining, binder[1].changedInLastPass,
                     binder[1].passes, binder[1].maxPasses)
    /\ binder' = Some(afterPass(binder[1], bindPass(binder[1].scope, binder[1].remaining, 1, <<>>, FALSE)))
    /\ UNCHANGED <<evaluator, sampler, hostVars, simVars, geoVars, fxVars>>

\* the loop is left: console.warn of what remains, return parser
ParserReturned ==
    /\ binder # None
    /\ ~binder[1].returned
    /\ ~loopContinues(binder[1].remaining, binder[1].changedInLastPass,
                      binder[1].passes, binder[1].maxPasses)
    /\ binder' = Some([binder[1] EXCEPT !.returned = TRUE, !.reported = namesOf(binder[1].remaining)])
    /\ UNCHANGED <<evaluator, sampler, hostVars, simVars, geoVars, fxVars>>

InitBinder ==
    /\ HostInit /\ SimIdle /\ GeoIdle /\ FxIdle
    /\ evaluator = None /\ sampler = None
    /\ \E functions \in FunctionLists(MaxFunctions) : binder = Some(enterLoop(functions))

NextBinder == BindingPass \/ ParserReturned

SpecBinder == InitBinder /\ [][NextBinder]_vars

-----------------------------------------------------------------------------
(* A parser returned by createConfiguredMathParser, in use: one function of *)
(* two parameters is bound; the callers set variables and evaluate calls.   *)

MaxEvaluations == 3

\* DEF FNA(x,y) = x + y ; DEF FNA(x,y) = x + t ; DEF FNA(x,y) = RAND()
EvaluatorBodies == {"x+y", "x+t", "RAND()"}

\* the values Math.random() gives the alias RAND = random
RandomDraws == {0, 500}

\* parser.evaluate('FNA(a, b)') with the variables of scope: None when it throws
evaluateCall(body, a, b, scope, draw) ==
    CASE body = "x+y" -> Some(fAdd(a, b))
      [] body = "x+t" -> IF scope.t = None THEN None ELSE Some(fAdd(a, scope.t[1]))
      [] body = "RAND()" -> Some(draw)

\* mathParser.set(name, value)
SetVariable(name, value) ==
    /\ evaluator # None
    /\ evaluator[1].scope[name] # Some(value)
    /\ evaluator' = Some([evaluator[1] EXCEPT !.scope[name] = Some(value)])
    /\ UNCHANGED <<binder, sampler, hostVars, simVars, geoVars, fxVars>>

\* mathParser.evaluate of a call; answers is the history of the calls and their values
EvaluateCall(a, b, draw) ==
    /\ evaluator # None
    /\ Len(evaluator[1].answers) < MaxEvaluations
    /\ evaluator' = Some([evaluator[1] EXCEPT !.answers =
            Append(@, [a |-> a, b |-> b,
                       value |-> evaluateCall(evaluator[1].body, a, b, evaluator[1].scope, draw)])])
    /\ UNCHANGED <<binder, sampler, hostVars, simVars, geoVars, fxVars>>

InitEvaluator ==
    /\ HostInit /\ SimIdle /\ GeoIdle /\ FxIdle
    /\ binder = None /\ sampler = None
    /\ \E body \in EvaluatorBodies :
        evaluator = Some([body |-> body, scope |-> [x |-> None, y |-> None, t |-> None],
                          answers |-> <<>>])

NextEvaluator ==
    \/ \E name \in {"x", "y", "t"}, value \in {0, 1000} : SetVariable(name, value)
    \/ \E a \in {0, 1000}, b \in {0, 2000}, draw \in RandomDraws : EvaluateCall(a, b, draw)

SpecEvaluator == InitEvaluator /\ [][NextEvaluator]_vars

-----------------------------------------------------------------------------
(* The callers of the evaluator that put samples into what is drawn:        *)
(* potentialFn, CriticalTransitionContour and GraphLabels.                  *)

CRITICAL_VALUE == -333
GRID_RES == 120

\* the largest value a Float32Array holds
MaxFloat32 == 20000

\* the store into a Float32Array
fround(v) ==
    IF ~isFinite(v) THEN v
    ELSE IF v > MaxFloat32 THEN Infinity ELSE IF v < -MaxFloat32 THEN -Infinity ELSE v

\* (xRange.max - xRange.min) / GRID_RES and xRange.min + i * dx
gridStep(range) == truncated(range.max - range.min, GRID_RES)
gridCoordinate(range, i) == stored(range.min + i * gridStep(range))

\* let val = 0; try { ... val = mathParser.evaluate('FN_AP_PRIME(x,y)') } catch (e) { val = 0 };
\* grid[...] = val, for the body field of FN_AP_PRIME
gridValue(field, x, y) ==
    IF evaluatePlot(field, x, y) = None THEN 0 ELSE fround(evaluatePlot(field, x, y)[1])

\* the corners of the square (i, j) and its origin
squareOf(field, xRange, yRange, i, j) ==
    [v0 |-> gridValue(field, gridCoordinate(xRange, i), gridCoordinate(yRange, j)),
     v1 |-> gridValue(field, gridCoordinate(xRange, i + 1), gridCoordinate(yRange, j)),
     v2 |-> gridValue(field, gridCoordinate(xRange, i + 1), gridCoordinate(yRange, j + 1)),
     v3 |-> gridValue(field, gridCoordinate(xRange, i), gridCoordinate(yRange, j + 1)),
     x0 |-> gridCoordinate(xRange, i), y0 |-> gridCoordinate(yRange, j),
     dx |-> gridStep(xRange), dy |-> gridStep(yRange)]

\* t0 + (t1 - t0) * ((CRITICAL_VALUE - v0) / (v1 - v0))
lerp(v0, v1, t0, t1) ==
    fAdd(t0, fMul(fSub(t1, t0), fQuot(fSub(CRITICAL_VALUE, v0), fSub(v1, v0))))

squareIndex(sq) ==
    (IF fGt(CRITICAL_VALUE, sq.v0) THEN 1 ELSE 0) + (IF fGt(CRITICAL_VALUE, sq.v1) THEN 2 ELSE 0)
    + (IF fGt(CRITICAL_VALUE, sq.v2) THEN 4 ELSE 0) + (IF fGt(CRITICAL_VALUE, sq.v3) THEN 8 ELSE 0)

\* a table that picks one diagonal at the saddles
squareLinesOneDiagonal ==
    << <<3, 0>>, <<0, 1>>, <<3, 1>>, <<1, 2>>, <<0, 1>>, <<0, 2>>, <<3, 2>>,
       <<2, 3>>, <<0, 2>>, <<0, 3>>, <<1, 2>>, <<3, 1>>, <<0, 1>>, <<3, 0>>, <<>> >>

\* the lookup table of the lines: the edges addLine is called with
squareLines ==
    << <<3, 0>>, <<0, 1>>, <<3, 1>>, <<1, 2>>, <<0, 1, 2, 3>>, <<0, 2>>, <<3, 2>>,
       <<2, 3>>, <<0, 2>>, <<0, 3, 1, 2>>, <<1, 2>>, <<3, 1>>, <<0, 1>>, <<3, 0>>, <<>> >>

edgesOf(sq) == IF squareIndex(sq) = 0 THEN <<>> ELSE squareLines[squareIndex(sq)]

\* px and py of getPoint(edge)
edgeX(sq, edge) ==
    CASE edge = 0 -> lerp(sq.v0, sq.v1, sq.x0, fAdd(sq.x0, sq.dx))
      [] edge = 1 -> fAdd(sq.x0, sq.dx)
      [] edge = 2 -> lerp(sq.v3, sq.v2, sq.x0, fAdd(sq.x0, sq.dx))
      [] edge = 3 -> sq.x0
edgeY(sq, edge) ==
    CASE edge = 0 -> sq.y0
      [] edge = 1 -> lerp(sq.v1, sq.v2, sq.y0, fAdd(sq.y0, sq.dy))
      [] edge = 2 -> fAdd(sq.y0, sq.dy)
      [] edge = 3 -> lerp(sq.v0, sq.v3, sq.y0, fAdd(sq.y0, sq.dy))

\* return [px, z, -py] with z = potentialFn(px, py) + 0.15
getPoint(sq, plotExpr, edge) ==
    <<edgeX(sq, edge), fAdd(potentialFn(plotExpr, edgeX(sq, edge), edgeY(sq, edge)), 150),
      fNeg(edgeY(sq, edge))>>

\* what the square adds to positions
squarePositions(sq, plotExpr) ==
    [k \in 1..Len(edgesOf(sq)) |-> getPoint(sq, plotExpr, edgesOf(sq)[k])]

\* the position expressions of LABEL statements: 2 ; x ; 1/0 ; 0/0
LabelExprs == {"2", "x", "1/0", "0/0"}

\* mathParser.evaluate(xExpr) in GraphLabels, where no x is set: None when it throws
evaluateLabel(expr) ==
    CASE expr = "2" -> Some(2000)
      [] expr = "x" -> None
      [] expr = "1/0" -> Some(Infinity)
      [] expr = "0/0" -> Some(NotANumber)

\* the label GraphLabels gives for positionExpr = [xExpr, yExpr, zExpr]
evaluatedLabel(positionExpr) ==
    IF \E k \in 1..3 : evaluateLabel(positionExpr[k]) = None
    THEN [visible |-> FALSE, position |-> <<0, 0, 0>>]
    ELSE [visible |-> TRUE,
          position |-> <<evaluateLabel(positionExpr[1])[1], evaluateLabel(positionExpr[3])[1],
                         fNeg(evaluateLabel(positionExpr[2])[1])>>]

\* what an algorithm has put out: the caller, whether a sample of it threw or was not a
\* finite number, and the positions it gives the renderer
Drawn(caller, failed, positions) ==
    [caller |-> caller, failed |-> failed, positions |-> positions]

\* a sample of the field that throws or is not a finite number
sampleFails(field, x, y) ==
    \/ evaluatePlot(field, x, y) = None
    \/ ~isFinite(evaluatePlot(field, x, y)[1])

\* the surface samples potentialFn at (x, y)
SurfaceSampled(x, y) ==
    /\ sampler # None
    /\ sampler' = Some([sampler[1] EXCEPT !.drawn =
            Drawn("potentialFn", sampleFails(sampler[1].field, x, y),
                  << <<x, potentialFn(sampler[1].field, x, y), fNeg(y)>> >>)])
    /\ UNCHANGED <<binder, evaluator, hostVars, simVars, geoVars, fxVars>>

\* CriticalTransitionContour handles the square (i, j) of its grid
SquareMarched(i, j) ==
    /\ sampler # None
    /\ sampler' = Some([sampler[1] EXCEPT !.drawn =
            Drawn("CriticalTransitionContour",
                  \E di \in {0, 1}, dj \in {0, 1} :
                      sampleFails(sampler[1].field, gridCoordinate(sampler[1].xRange, i + di),
                                  gridCoordinate(sampler[1].yRange, j + dj)),
                  squarePositions(squareOf(sampler[1].field, sampler[1].xRange, sampler[1].yRange, i, j),
                                  sampler[1].plotExpr))])
    /\ UNCHANGED <<binder, evaluator, hostVars, simVars, geoVars, fxVars>>

\* GraphLabels evaluates a label
LabelEvaluated(positionExpr) ==
    /\ sampler # None
    /\ sampler' = Some([sampler[1] EXCEPT !.drawn =
            Drawn("GraphLabels",
                  \E k \in 1..3 : \/ evaluateLabel(positionExpr[k]) = None
                                  \/ ~isFinite(evaluateLabel(positionExpr[k])[1]),
                  IF evaluatedLabel(positionExpr).visible
                  THEN <<evaluatedLabel(positionExpr).position>> ELSE <<>>)])
    /\ UNCHANGED <<binder, evaluator, hostVars, simVars, geoVars, fxVars>>

InitSampler ==
    /\ HostInit /\ SimIdle /\ GeoIdle /\ FxIdle
    /\ binder = None /\ evaluator = None
    /\ \E field \in PlotExprs, plotExpr \in {"0", "x"},
          xRange \in {[min |-> -6000, max |-> 6000], [min |-> -2000, max |-> 4000]} :
        sampler = Some([field |-> field, plotExpr |-> plotExpr, xRange |-> xRange,
                        yRange |-> [min |-> -6000, max |-> 6000],
                        drawn |-> Drawn("none", FALSE, <<>>)])

NextSampler ==
    \/ \E x \in {-1000, 0, 1000}, y \in {0, 2018} : SurfaceSampled(x, y)
    \/ \E i \in {39, 40, 59, 60}, j \in {59, 80} : SquareMarched(i, j)
    \/ \E e \in LabelExprs, z \in LabelExprs : LabelEvaluated(<<e, "2", z>>)

SpecSampler == InitSampler /\ [][NextSampler]_vars

-----------------------------------------------------------------------------
(* geodesic.ts: calculateGeodesicPath.  A point is <<x, y, z>> in whole     *)
(* units; a length is in thousandths, rounded down.  Vertices are numbered  *)
(* from 0 as in the index of the geometry.                                  *)

RECURSIVE sqrtBetween(_, _, _)
\* the largest r of lo..hi with r * r <= n
sqrtBetween(n, lo, hi) ==
    IF lo >= hi THEN lo
    ELSE IF ((lo + hi + 1) \div 2) * ((lo + hi + 1) \div 2) <= n
         THEN sqrtBetween(n, (lo + hi + 1) \div 2, hi)
         ELSE sqrtBetween(n, lo, ((lo + hi + 1) \div 2) - 1)

distanceToSquared(p, q) ==
    (p[1] - q[1]) * (p[1] - q[1]) + (p[2] - q[2]) * (p[2] - q[2]) + (p[3] - q[3]) * (p[3] - q[3])

\* p.distanceTo(q)
distanceTo(p, q) == sqrtBetween(1000000 * distanceToSquared(p, q), 0, MaxFloat)

MaxColumns == 3

\* the surface of generateSurfaceData with columns x 2 vertices, 3 apart in x and 4 apart
\* in y: vertices.push(x, z, -y); indices.push(a, c, b); indices.push(b, c, d)
gridVertices(columns, height) ==
    [n \in 1..(2 * columns) |->
        <<3 * ((n - 1) % columns), height[((n - 1) % columns) + 1], -4 * ((n - 1) \div columns)>>]

gridIndices(columns) ==
    [n \in 1..(6 * (columns - 1)) |->
        LET a == (n - 1) \div 6
        IN  <<a, a + columns, a + 1, a + 1, a + columns, a + columns + 1>>[((n - 1) % 6) + 1]]

\* const edges = [[a, b], [b, c], [c, a]] of every triangle, in the order of the index
meshEdges(indices) ==
    [n \in 1..Len(indices) |->
        <<indices[n], indices[IF n % 3 = 0 THEN n - 2 ELSE n + 1]>>]

RECURSIVE adjacency(_, _, _, _)
\* graph.get(u) after the edges from the k-th on are inserted: each edge is pushed on the
\* lists of both its ends, a shared side once per triangle
adjacency(vertices, edges, u, k) ==
    IF k > Len(edges) THEN <<>>
    ELSE (IF edges[k][1] = u
          THEN <<[neighbor |-> edges[k][2],
                  weight |-> distanceTo(vertices[edges[k][1] + 1], vertices[edges[k][2] + 1])]>>
          ELSE <<>>)
         \o (IF edges[k][2] = u
             THEN <<[neighbor |-> edges[k][1],
                     weight |-> distanceTo(vertices[edges[k][1] + 1], vertices[edges[k][2] + 1])]>>
             ELSE <<>>)
         \o adjacency(vertices, edges, u, k + 1)

RECURSIVE findClosestVertex(_, _, _, _, _)
\* vertices.forEach((vertex, index) => { if (dist < minDistance) ... }) from index k on:
\* -1 when there is no vertex
findClosestVertex(vertices, point, k, closestIndex, minDistance) ==
    IF k > Len(vertices) THEN closestIndex
    ELSE IF fGt(minDistance, distanceTo(point, vertices[k]))
         THEN findClosestVertex(vertices, point, k + 1, k - 1, distanceTo(point, vertices[k]))
         ELSE findClosestVertex(vertices, point, k + 1, closestIndex, minDistance)

\* a queue that serves the last arrival first
enqueueUnsorted(elements, item, priority) ==
    <<[item |-> item, priority |-> priority]>> \o elements

\* PriorityQueue.enqueue: push, then a stable sort by priority
enqueue(elements, item, priority) ==
    LET before == {k \in 1..Len(elements) : elements[k].priority <= priority}
    IN  [k \in 1..(Len(elements) + 1) |->
            IF k <= Cardinality(before) THEN elements[k]
            ELSE IF k = Cardinality(before) + 1 THEN [item |-> item, priority |-> priority]
            ELSE elements[k - 1]]

RECURSIVE relax(_, _, _, _)
\* for (const { neighbor, weight } of neighbors) from the k-th on
relax(g, u, neighbors, k) ==
    IF k > Len(neighbors) THEN g
    ELSE IF fGt(g.distances[neighbors[k].neighbor + 1], fAdd(g.distances[u + 1], neighbors[k].weight))
         THEN relax([g EXCEPT
                        !.distances[neighbors[k].neighbor + 1] = fAdd(g.distances[u + 1], neighbors[k].weight),
                        !.previous[neighbors[k].neighbor + 1] = Some(u),
                        !.pq = enqueue(@, neighbors[k].neighbor,
                                       fAdd(g.distances[u + 1], neighbors[k].weight))],
                    u, neighbors, k + 1)
         ELSE relax(g, u, neighbors, k + 1)

RECURSIVE backPointerPath(_, _, _, _)
\* while (current !== null) { path.unshift(vertices[current]); current = previous[current] }
backPointerPath(vertices, previous, current, path) ==
    IF current = None THEN path
    ELSE backPointerPath(vertices, previous, previous[current[1] + 1], <<vertices[current[1] + 1]>> \o path)

\* path[0] = startPoint; path[path.length - 1] = endPoint, or push both on an empty path
spliced(path, startPoint, endPoint) ==
    IF Len(path) > 0
    THEN [[path EXCEPT ![1] = startPoint] EXCEPT ![Len(path)] = endPoint]
    ELSE <<startPoint, endPoint>>

\* a distance without the two snapping distances
finalDistanceOnGraph(g) == g.distances[g.endVertexIndex + 1]

\* startPoint.distanceTo(vertices[start]) + distances[end] + endPoint.distanceTo(vertices[end])
finalDistance(g) ==
    fAdd(fAdd(distanceTo(g.startPoint, g.vertices[g.startVertexIndex + 1]),
              g.distances[g.endVertexIndex + 1]),
         distanceTo(g.endPoint, g.vertices[g.endVertexIndex + 1]))

\* the call, up to the while loop: the two early returns, else the start of the search
enterSearch(startPoint, endPoint, indexed, vertices, indices, startVertexIndex, endVertexIndex) ==
    [startPoint |-> startPoint, endPoint |-> endPoint, vertices |-> vertices, indices |-> indices,
     startVertexIndex |-> startVertexIndex, endVertexIndex |-> endVertexIndex,
     distances |-> [k \in 1..Len(vertices) |-> IF k = startVertexIndex + 1 THEN 0 ELSE Infinity],
     previous |-> [k \in 1..Len(vertices) |-> None],
     pq |-> IF indexed /\ startVertexIndex # -1 /\ endVertexIndex # -1
            THEN enqueue(<<>>, startVertexIndex, 0) ELSE <<>>,
     broken |-> FALSE,
     returned |-> IF ~indexed
                  THEN Some([path |-> <<startPoint, endPoint>>, distance |-> distanceTo(startPoint, endPoint)])
                  ELSE IF startVertexIndex = -1 \/ endVertexIndex = -1
                  THEN Some([path |-> <<>>, distance |-> 0])
                  ELSE None]

calculateGeodesicPath(startPoint, endPoint, indexed, vertices, indices) ==
    enterSearch(startPoint, endPoint, indexed, vertices, indices,
                findClosestVertex(vertices, startPoint, 1, -1, Infinity),
                findClosestVertex(vertices, endPoint, 1, -1, Infinity))

\* one turn of while (!pq.isEmpty()): dequeue, break on the end vertex, else relax
afterDequeue(g, u) ==
    IF u = g.endVertexIndex
    THEN [g EXCEPT !.pq = Tail(@), !.broken = TRUE]
    ELSE relax([g EXCEPT !.pq = Tail(@)], u, adjacency(g.vertices, meshEdges(g.indices), u, 1), 1)

SearchTurn ==
    /\ geodesic # None
    /\ geodesic[1].returned = None
    /\ ~geodesic[1].broken /\ geodesic[1].pq # <<>>
    /\ geodesic' = Some(afterDequeue(geodesic[1], Head(geodesic[1].pq).item))
    /\ UNCHANGED <<hostVars, simVars, evalVars, fxVars>>

\* the loop is left: the path is rebuilt and returned with the distance
PathReturned ==
    /\ geodesic # None
    /\ geodesic[1].returned = None
    /\ geodesic[1].broken \/ geodesic[1].pq = <<>>
    /\ geodesic' = Some([geodesic[1] EXCEPT !.returned =
            Some([path |-> spliced(backPointerPath(geodesic[1].vertices, geodesic[1].previous,
                                                   Some(geodesic[1].endVertexIndex), <<>>),
                                   geodesic[1].startPoint, geodesic[1].endPoint),
                  distance |-> finalDistance(geodesic[1])])])
    /\ UNCHANGED <<hostVars, simVars, evalVars, fxVars>>

\* the heights of the columns of a surface: flat, or a ridge on the second column
Heights(columns) ==
    {[c \in 1..columns |-> 0], [c \in 1..columns |-> IF c = 2 THEN 4 ELSE 0]}

\* the points a click gives: the vertices, and on a flat surface the points 1 beside them
ClickPoints(vertices, columns) ==
    {vertices[n] : n \in 1..Len(vertices)}
    \cup {<<vertices[n][1] + 1, 0, vertices[n][3]>> :
             n \in {m \in 1..Len(vertices) :
                       /\ \A k \in 1..Len(vertices) : vertices[k][2] = 0
                       /\ (m - 1) % columns < columns - 1}}

InitGeodesic ==
    /\ HostInit /\ SimIdle /\ EvalIdle /\ FxIdle
    /\ \E columns \in 2..MaxColumns :
        \E height \in Heights(columns) :
            \E startPoint \in ClickPoints(gridVertices(columns, height), columns),
               endPoint \in ClickPoints(gridVertices(columns, height), columns) :
                geodesic = Some(calculateGeodesicPath(startPoint, endPoint, TRUE,
                                    gridVertices(columns, height), gridIndices(columns)))

NextGeodesic == SearchTurn \/ PathReturned

SpecGeodesic == InitGeodesic /\ [][NextGeodesic]_vars

-----------------------------------------------------------------------------
(* The contour extractors, cell by cell                                    *)

\* the values a corner of a cell holds: finite ones on both sides of the levels, and the
\* ones a field gives that divides by zero
CornerValues == {-2000, -1000, 0, 1000, Infinity, -Infinity, NotANumber}

\* the cells: origin and steps of a grid of the default ranges and of a coarse one
CellFrames == {[x0 |-> -6000, y0 |-> 0, dx |-> 100, dy |-> 100],
               [x0 |-> 0, y0 |-> -2000, dx |-> 1000, dy |-> 500]}

\* graphData.contours.levels
ContourLevels == {-1000, 0, 500}

cellOf(frame, v0, v1, v2, v3) ==
    [v0 |-> v0, v1 |-> v1, v2 |-> v2, v3 |-> v3,
     x0 |-> frame.x0, y0 |-> frame.y0, dx |-> frame.dx, dy |-> frame.dy]

\* animatedPositions.push(x, isNaN(z) || !isFinite(z) ? 0 : z, -y)
animatedHeight(z) == IF isFinite(z) THEN z ELSE 0

\* vA, vB, vC, vD of ContourLines: [x, height, -y]
vertexA(sq) == <<sq.x0, animatedHeight(sq.v0), fNeg(sq.y0)>>
vertexB(sq) == <<fAdd(sq.x0, sq.dx), animatedHeight(sq.v1), fNeg(sq.y0)>>
vertexC(sq) == <<sq.x0, animatedHeight(sq.v3), fNeg(fAdd(sq.y0, sq.dy))>>
vertexD(sq) == <<fAdd(sq.x0, sq.dx), animatedHeight(sq.v2), fNeg(fAdd(sq.y0, sq.dy))>>

\* Vector3.lerpVectors(p1, p2, t)
lerpVectors(p1, p2, t) == [k \in 1..3 |-> fAdd(p1[k], fMul(fSub(p2[k], p1[k]), t))]

\* edgeCheck(p1, p2): the points it pushes
edgeCheck(p1, p2, level) ==
    IF (p1[2] > level /\ p2[2] <= level) \/ (p1[2] <= level /\ p2[2] > level)
    THEN <<lerpVectors(p1, p2, fQuot(level - p1[2], p2[2] - p1[2]))>>
    ELSE <<>>

\* edgeCheck(vA, vB); edgeCheck(vB, vD); edgeCheck(vD, vC); edgeCheck(vC, vA)
edgePoints(sq, level) ==
    edgeCheck(vertexA(sq), vertexB(sq), level) \o edgeCheck(vertexB(sq), vertexD(sq), level)
    \o edgeCheck(vertexD(sq), vertexC(sq), level) \o edgeCheck(vertexC(sq), vertexA(sq), level)

\* const yOffset = 0.01
yOffset == 10

\* what the cell adds to contourPoints, three numbers to a point
contourPoints(points) ==
    IF Len(points) >= 2
    THEN [k \in 1..(IF Len(points) = 4 THEN 4 ELSE 2) |->
            <<points[k][1], fAdd(points[k][2], yOffset), points[k][3]>>]
    ELSE <<>>

\* a cell handed to an extractor: which one, the corner values it saw, the level, and the
\* positions it gave, two to a segment
Extracted(caller, cell, level, positions) ==
    [caller |-> caller, cell |-> cell, level |-> level, positions |-> positions]

\* the body of the two loops of CriticalTransitionContour for one cell
CellMarched ==
    /\ contour # None /\ contour[1].caller = "none"
    /\ contour' = Some(Extracted("CriticalTransitionContour", contour[1].cell, CRITICAL_VALUE,
                                 squarePositions(contour[1].cell, "0")))
    /\ OnlyChanges("contour")

\* the body of the loops of ContourLines for one cell and one level
CellContoured(level) ==
    /\ contour # None /\ contour[1].caller = "none"
    /\ contour' = Some(Extracted("ContourLines",
                                 [contour[1].cell EXCEPT !.v0 = animatedHeight(@), !.v1 = animatedHeight(@),
                                                         !.v2 = animatedHeight(@), !.v3 = animatedHeight(@)],
                                 level, contourPoints(edgePoints(contour[1].cell, level))))
    /\ OnlyChanges("contour")

InitContour ==
    /\ SceneIdle /\ FxIdleBut({"contour"})
    /\ \E frame \in CellFrames, v0 \in CornerValues, v1 \in CornerValues,
          v2 \in CornerValues, v3 \in CornerValues :
        contour = Some(Extracted("none", cellOf(frame, fround(v0), fround(v1), fround(v2), fround(v3)),
                                 0, <<>>))

NextContour ==
    \/ CellMarched
    \/ \E level \in ContourLevels : CellContoured(level)

SpecContour == InitContour /\ [][NextContour]_vars

-----------------------------------------------------------------------------
(* The streamline tracers, one loop iteration per step                     *)

\* the ceilings of the two loops, for (let i = 0; i < 500; i++) of generateStreamline and
\* for (let i = 0; i < 1000; i++) of generateFieldline, scaled down
StreamlineCeiling == 4
FieldlineCeiling == 6

\* const dt = 0.05 of generateStreamline, const dt = 0.03 of generateFieldline
streamlineDt == 50
fieldlineDt == 30

\* getFieldVector(x, y): mode 'gradient', and a mode that needs the vector field or the
\* differential equation when the scene has none
getFieldVector(mode, plotExpr, x, y) ==
    IF mode = "gradient"
    THEN [dx |-> fNeg(computeGradient(plotExpr, x, y).dx), dy |-> fNeg(computeGradient(plotExpr, x, y).dy)]
    ELSE [dx |-> 0, dy |-> 0]

\* the field the tracer follows: the gradient itself in generateStreamline
fieldAt(f, x, y) ==
    IF f.caller = "generateStreamline" THEN computeGradient(f.plotExpr, x, y)
    ELSE getFieldVector(f.mode, f.plotExpr, x, y)

\* the field at (x + c * k.dx, y + c * k.dy)
fieldAhead(f, c, k) == fieldAt(f, fAdd(f.x, fMul(c, k.dx)), fAdd(f.y, fMul(c, k.dy)))

\* (k1 + 2 * k2 + 2 * k3 + k4) / 6
weighted(k1, k2, k3, k4) ==
    [dx |-> fDiv(fAdd(fAdd(fAdd(k1.dx, fMul(2000, k2.dx)), fMul(2000, k3.dx)), k4.dx), 6000),
     dy |-> fDiv(fAdd(fAdd(fAdd(k1.dy, fMul(2000, k2.dy)), fMul(2000, k3.dy)), k4.dy), 6000)]

\* the RK4 slope of one step of length dt
rungeKutta(f, dt) ==
    LET k1 == fieldAt(f, f.x, f.y)
        k2 == fieldAhead(f, fMul(500, dt), k1)
        k3 == fieldAhead(f, fMul(500, dt), k2)
        k4 == fieldAhead(f, dt, k3)
    IN  weighted(k1, k2, k3, k4)

\* x < xRange.min || x > xRange.max || y < yRange.min || y > yRange.max
outOfBounds(f, x, y) ==
    \/ fGt(f.xRange.min, x) \/ fGt(x, f.xRange.max)
    \/ fGt(f.yRange.min, y) \/ fGt(y, f.yRange.max)

\* a * a + b * b < 1e-6, for numbers in thousandths
squaresBelowMillionth(a, b) == a = 0 /\ b = 0

\* the position after the step: x -= dt * dx in generateStreamline, x += dt * netDx in
\* generateFieldline
steppedTo(f, c, slope) ==
    IF f.caller = "generateStreamline" THEN fSub(c, fMul(streamlineDt, slope))
    ELSE fAdd(c, fMul(fieldlineDt, slope))

\* the break of the iteration that starts in f and steps along slope
breaks(f, slope) ==
    IF f.caller = "generateStreamline"
    THEN \/ outOfBounds(f, steppedTo(f, f.x, slope.dx), steppedTo(f, f.y, slope.dy))
         \/ squaresBelowMillionth(slope.dx, slope.dy)
    ELSE \/ outOfBounds(f, steppedTo(f, f.x, slope.dx), steppedTo(f, f.y, slope.dy))
         \* const tooSlow = magnitude < 1e-6, the magnitude of getFieldVector(x, y)
         \/ squaresBelowMillionth(fieldAt(f, f.x, f.y).dx, fieldAt(f, f.x, f.y).dy)
         \* const tooLong = i > config.length
         \/ f.i > f.length

ceilingOf(f) == IF f.caller = "generateStreamline" THEN StreamlineCeiling ELSE FieldlineCeiling

\* history: a condition the trace is to end on holds after the iteration that starts in f:
\* the position has left the ranges, the field is below the epsilon, or the steps taken,
\* this one included, have reached the maximum (the 500 of generateStreamline's loop,
\* config.length in generateFieldline)
stopHolds(f, slope) ==
    \/ outOfBounds(f, steppedTo(f, f.x, slope.dx), steppedTo(f, f.y, slope.dy))
    \/ IF f.caller = "generateStreamline" THEN squaresBelowMillionth(slope.dx, slope.dy)
       ELSE squaresBelowMillionth(fieldAt(f, f.x, f.y).dx, fieldAt(f, f.x, f.y).dy)
    \/ Len(f.points) + 1 >= (IF f.caller = "generateStreamline" THEN StreamlineCeiling ELSE f.length)

\* one iteration of the for loop
iterated(f, slope) ==
    [f EXCEPT !.points = Append(@, <<f.x, f.y>>),
              !.x = steppedTo(f, @, slope.dx),
              !.y = steppedTo(f, @, slope.dy),
              !.i = @ + 1,
              !.returned = breaks(f, slope) \/ f.i + 1 >= ceilingOf(f),
              !.firstStop = IF @ = None /\ stopHolds(f, slope) THEN Some(Len(f.points) + 1) ELSE @]

\* an iteration of the loop of generateStreamline or of generateFieldline
TraceIteration ==
    /\ fieldline # None /\ ~fieldline[1].returned
    /\ fieldline' = Some(iterated(fieldline[1], rungeKutta(fieldline[1],
                            IF fieldline[1].caller = "generateStreamline" THEN streamlineDt ELSE fieldlineDt)))
    /\ OnlyChanges("fieldline")

\* the seeds: startX = xRange.min + Math.random() * (xRange.max - xRange.min)
SeedsOf(xRange) == {xRange.min + 20, xRange.min + 70, (xRange.min + xRange.max) \div 2}
TraceRanges == {[min |-> -6000, max |-> 6000], [min |-> 0, max |-> 200]}
\* config.length: 500 in VisualEffects
ConfigLengths == {1, 2, FieldlineCeiling - 1}

traceFrom(caller, mode, plotExpr, xRange, length, startX) ==
    [caller |-> caller, mode |-> mode, plotExpr |-> plotExpr, xRange |-> xRange,
     yRange |-> [min |-> -6000, max |-> 6000], length |-> length,
     x |-> startX, y |-> 0, i |-> 0, points |-> <<>>, returned |-> FALSE,
     firstStop |-> None]

InitFieldline ==
    /\ SceneIdle /\ FxIdleBut({"fieldline"})
    /\ \E plotExpr \in {"0", "x"}, xRange \in TraceRanges : \E startX \in SeedsOf(xRange) :
        \/ fieldline = Some(traceFrom("generateStreamline", "gradient", plotExpr, xRange, 0, startX))
        \/ \E mode \in {"gradient", "vector_field"}, length \in ConfigLengths :
            fieldline = Some(traceFrom("generateFieldline", mode, plotExpr, xRange, length, startX))

NextFieldline == TraceIteration

SpecFieldline == InitFieldline /\ [][NextFieldline]_vars

-----------------------------------------------------------------------------
(* The integration steps: useParticlePhysics with its gradient cache, and, *)
(* particle by particle, ParticleSystem and integrateFuture                *)

\* cacheSize: 500 where useParticlePhysics creates the computer, scaled down
cacheSize == 3

\* x.toFixed(2): the sign and the hundredths, or the value that is no finite number
toFixed(x) == <<x < 0, IF isFinite(x) THEN ((IF x < 0 THEN -x ELSE x) + 5) \div 10 ELSE x>>

\* `${x.toFixed(2)},${y.toFixed(2)}`
cacheKey(x, y) == <<toFixed(x), toFixed(y)>>

\* the Map: a set of entries, one to a key
cached(cache, key) == {entry \in cache : entry.key = key}

\* what the function createGradientComputer returns gives for (x, y)
cachedGradient(cache, plotExpr, x, y) ==
    IF cached(cache, cacheKey(x, y)) # {}
    THEN (CHOOSE entry \in cached(cache, cacheKey(x, y)) : TRUE).value
    ELSE computeGradient(plotExpr, x, y)

\* a Map that is never cleared
cacheAfterKeepingAll(cache, plotExpr, x, y) ==
    IF cached(cache, cacheKey(x, y)) # {} THEN cache
    ELSE cache \union {[key |-> cacheKey(x, y), value |-> computeGradient(plotExpr, x, y)]}

\* ... and what it leaves in the Map: if (cache.size >= cacheSize) cache.clear();
\* cache.set(key, result)
cacheAfter(cache, plotExpr, x, y) ==
    IF cached(cache, cacheKey(x, y)) # {} THEN cache
    ELSE (IF Cardinality(cache) >= cacheSize THEN {} ELSE cache)
         \union {[key |-> cacheKey(x, y), value |-> computeGradient(plotExpr, x, y)]}

\* p.vx += ax * dt; p.vy += ay * dt; p.x += p.vx * dt; p.y += p.vy * dt.  The config is
\* written with the names of the props of ParticleSystem: damping for gamma,
\* forceCoupling for alpha, xRange and yRange for boundaries.x and boundaries.y
velocityUpdated(p, config, grad) ==
    [p EXCEPT !.vx = fAdd(@, fMul(acceleration(config, p.vx, grad.dx), config.dt)),
              !.vy = fAdd(@, fMul(acceleration(config, p.vy, grad.dy), config.dt))]
positionUpdated(p, config) ==
    [p EXCEPT !.x = fAdd(@, fMul(p.vx, config.dt)), !.y = fAdd(@, fMul(p.vy, config.dt))]
integrateSymplecticEuler(p, grad, config) == positionUpdated(velocityUpdated(p, config, grad), config)

applyBoundaryConditions(p, config) ==
    [p EXCEPT
        !.x = IF fGt(config.xRange.min, p.x) THEN config.xRange.min
              ELSE IF fGt(p.x, config.xRange.max) THEN config.xRange.max ELSE @,
        !.vx = IF fGt(config.xRange.min, p.x) \/ fGt(p.x, config.xRange.max)
               THEN fMul(@, fNeg(config.restitution)) ELSE @,
        !.y = IF fGt(config.yRange.min, p.y) THEN config.yRange.min
              ELSE IF fGt(p.y, config.yRange.max) THEN config.yRange.max ELSE @,
        !.vy = IF fGt(config.yRange.min, p.y) \/ fGt(p.y, config.yRange.max)
               THEN fMul(@, fNeg(config.restitution)) ELSE @]

\* spawnPoints = [{ x: 0, y: 0, r: 2 }]
spawnPoints == << [x |-> 0, y |-> 0] >>

isInvalid(p) == ~isFinite(p.x) \/ ~isFinite(p.y) \/ ~isFinite(p.vx) \/ ~isFinite(p.vy)

respawnIfInvalid(p, draw) ==
    IF isInvalid(p)
    THEN [p EXCEPT !.x = fAdd(spawnPoints[(p.id % Len(spawnPoints)) + 1].x, fMul(draw.radius, draw.cos)),
                   !.y = fAdd(spawnPoints[(p.id % Len(spawnPoints)) + 1].y, fMul(draw.radius, draw.sin)),
                   !.vx = fMul(-500, draw.sin),
                   !.vy = fMul(500, draw.cos),
                   !.trail = <<>>]
    ELSE p

\* SIM_DT of lyapunov.ts
SIM_DT == 20

\* the body of the loop of integrateFuture
futureStep(p, config) ==
    positionUpdated(velocityUpdated(p, [config EXCEPT !.dt = SIM_DT],
                                    computeGradient(config.plotExpr, p.x, p.y)),
                    [config EXCEPT !.dt = SIM_DT])

\* the steps one particle is followed for
MaxSteps == 5

\* a particle under a scheme: its config, the particle, and of its last step the particle
\* before, the particle as integrated, and whether the step respawned it
Stepping(scheme, config, particle, previous, integrated, respawned, steps) ==
    [scheme |-> scheme, config |-> config, particle |-> particle, previous |-> previous,
     integrated |-> integrated, respawned |-> respawned, steps |-> steps]

\* the callback useParticlePhysics returns, for the draw Math.random() gives a respawn
updateParticles(draw) ==
    /\ physics # None /\ gradientCache # None
    /\ physics[1].scheme = "useParticlePhysics" /\ physics[1].steps < MaxSteps
    /\ physics' = Some(Stepping("useParticlePhysics", physics[1].config,
            respawnIfInvalid(applyBoundaryConditions(
                integrateSymplecticEuler(physics[1].particle,
                    cachedGradient(gradientCache[1].cache, physics[1].config.plotExpr,
                                   physics[1].particle.x, physics[1].particle.y),
                    physics[1].config), physics[1].config), draw),
            Some(physics[1].particle),
            Some(integrateSymplecticEuler(physics[1].particle,
                    cachedGradient(gradientCache[1].cache, physics[1].config.plotExpr,
                                   physics[1].particle.x, physics[1].particle.y),
                    physics[1].config)),
            isInvalid(applyBoundaryConditions(
                integrateSymplecticEuler(physics[1].particle,
                    cachedGradient(gradientCache[1].cache, physics[1].config.plotExpr,
                                   physics[1].particle.x, physics[1].particle.y),
                    physics[1].config), physics[1].config)),
            physics[1].steps + 1))
    /\ gradientCache' = Some([cache |-> cacheAfter(gradientCache[1].cache, physics[1].config.plotExpr,
                                                   physics[1].particle.x, physics[1].particle.y),
                              sizeBefore |-> Cardinality(gradientCache[1].cache),
                              hit |-> cached(gradientCache[1].cache,
                                             cacheKey(physics[1].particle.x, physics[1].particle.y)) # {},
                              queries |-> gradientCache[1].queries + 1])
    /\ UNCHANGED <<hostVars, simVars, evalVars, geoVars, contour, fieldline, animation, measurement, lyapunov>>

\* the callback of particles.forEach in the frame of ParticleSystem, for one particle
particleFrame(draw) ==
    /\ physics # None
    /\ physics[1].scheme = "ParticleSystem" /\ physics[1].steps < MaxSteps
    /\ physics' = Some(Stepping("ParticleSystem", physics[1].config,
            stepParticle(physics[1].particle, physics[1].config, physics[1].config.dt, draw),
            Some(physics[1].particle),
            Some(integrate(physics[1].particle, physics[1].config, physics[1].config.dt)),
            needsRespawn(bounce(integrate(physics[1].particle, physics[1].config, physics[1].config.dt),
                                physics[1].config)),
            physics[1].steps + 1))
    /\ OnlyChanges("physics")

\* an iteration of the loop of integrateFuture
futureIteration ==
    /\ physics # None
    /\ physics[1].scheme = "integrateFuture" /\ physics[1].steps < MaxSteps
    /\ physics' = Some(Stepping("integrateFuture", physics[1].config,
            futureStep(physics[1].particle, physics[1].config),
            Some(physics[1].particle),
            Some(futureStep(physics[1].particle, physics[1].config)),
            FALSE, physics[1].steps + 1))
    /\ OnlyChanges("physics")

\* DEFAULT_PHYSICS_CONFIG and the props App gives ParticleSystem, over the ranges of an IR
PhysicsConfigs ==
    {[plotExpr |-> plotExpr, damping |-> 500, forceCoupling |-> 2000, dt |-> 16, restitution |-> 800,
      xRange |-> xRange, yRange |-> yRange, showTrails |-> FALSE, trailLength |-> 50] :
        plotExpr \in {"0", "x", "6*x", "1e308*STEP(2.018,y)"},
        xRange \in {[min |-> -8000, max |-> 8000], [min |-> -1000, max |-> 1000]},
        yRange \in {[min |-> -8000, max |-> 8000]}}

InitPhysics ==
    /\ SceneIdle /\ FxIdleBut({"physics", "gradientCache"})
    /\ \E config \in PhysicsConfigs, id \in {0, 1}, draw \in SpawnDraws :
        \/ /\ physics = Some(Stepping("useParticlePhysics", config, spawnParticle(id, draw),
                                      None, None, FALSE, 0))
           /\ gradientCache = Some([cache |-> {}, sizeBefore |-> 0, hit |-> FALSE, queries |-> 0])
        \/ /\ physics = Some(Stepping("ParticleSystem", config, spawnParticle(id, draw),
                                      None, None, FALSE, 0))
           /\ gradientCache = None
        \/ /\ physics = Some(Stepping("integrateFuture", config,
                                      [spawnParticle(id, draw) EXCEPT !.vx = 0, !.vy = 0],
                                      None, None, FALSE, 0))
           /\ gradientCache = None

NextPhysics ==
    \/ \E draw \in SpawnDraws : updateParticles(draw)
    \/ \E draw \in SpawnDraws : particleFrame(draw)
    \/ futureIteration

SpecPhysics == InitPhysics /\ [][NextPhysics]_vars

-----------------------------------------------------------------------------
(* The animation clock of ViewportPanel                                    *)

\* ANIMATE t FROM from TO to STEP step
AnimateLineOf(from, to, step) ==
    <<"ANIMATE", " ", "t", " ", "FROM", " ", from, " ", "TO", " ", to, " ", "STEP", " ", step>>

\* the programs with an ANIMATE statement
AnimatedPrograms ==
    {<<DefFnALine, Plot3dLine, AnimateLineOf(from, to, step)>> :
        from \in {"0", "6", "-2"}, to \in {"6", "0", "2"}, step \in {"1", "0.05", "0"}}

\* ViewportPanel once the effect of [animation] has run: setTime(animation?.from ?? 0);
\* setIsPlaying(true)
clockOf(a) ==
    [animation |-> a, time |-> a.from, isPlaying |-> TRUE, ticked |-> FALSE]

\* t => (t + animation.step > animation.to) ? animation.from : t + animation.step
nextTime(a, t) == IF t + a.step > a.to THEN a.from ELSE t + a.step

\* the useFrame callback of AnimationController
Tick ==
    /\ animation # None /\ animation[1].isPlaying
    /\ animation' = Some([animation[1] EXCEPT !.time = nextTime(animation[1].animation, @),
                                              !.ticked = TRUE])
    /\ OnlyChanges("animation")

\* the play and pause button of AnimationControls
PlayPause ==
    /\ animation # None
    /\ animation' = Some([animation[1] EXCEPT !.isPlaying = ~@])
    /\ OnlyChanges("animation")

\* the values <input type="range" min={from} max={to} step={step}> gives
sliderValues(a) ==
    IF a.to < a.from THEN {a.from}
    ELSE {a.from + k * a.step : k \in 0..((a.to - a.from) \div a.step)}

\* the time slider of AnimationControls
SliderMoved(value) ==
    /\ animation # None
    /\ value \in sliderValues(animation[1].animation)
    /\ animation' = Some([animation[1] EXCEPT !.time = value])
    /\ OnlyChanges("animation")

InitAnimation ==
    /\ SceneIdle /\ FxIdleBut({"animation"})
    /\ \E program \in AnimatedPrograms :
        /\ parseG3D(program).thrown = None
        /\ animation = Some(clockOf(parseG3D(program).ir.animation[1]))

NextAnimation ==
    \/ Tick
    \/ PlayPause
    \/ \E k \in 0..3 : SliderMoved(animation[1].animation.from + k * animation[1].animation.step)

SpecAnimation == InitAnimation /\ [][NextAnimation]_vars

-----------------------------------------------------------------------------
(* The distance measurement of ViewportPanel                               *)

\* calculateGeodesicPath run to its return
RECURSIVE searched(_)
searched(g) ==
    IF g.returned # None THEN g.returned[1]
    ELSE IF g.broken \/ g.pq = <<>>
    THEN [path |-> spliced(backPointerPath(g.vertices, g.previous, Some(g.endVertexIndex), <<>>),
                           g.startPoint, g.endPoint),
          distance |-> finalDistance(g)]
    ELSE searched(afterDequeue(g, Head(g.pq).item))

\* { points, path, distance }
MeasurementData(points, path, distance) == [points |-> points, path |-> path, distance |-> distance]

\* the measurement with the path and the distance of a search
measured(points, found) == MeasurementData(points, Some(found.path), Some(found.distance))

\* an updater that keeps every point clicked
clickedKeepingAll(prev, point, vertices, indices) ==
    IF Len(prev.points) + 1 = 1 THEN MeasurementData(<<point>>, None, None)
    ELSE IF Len(prev.points) + 1 = 2
    THEN measured(Append(prev.points, point),
                  searched(calculateGeodesicPath(prev.points[1], point, TRUE, vertices, indices)))
    ELSE MeasurementData(Append(prev.points, point), None, None)

\* the updater handleSurfaceClick gives setMeasurementData, on a surface with a geometry
clicked(prev, point, vertices, indices) ==
    IF Len(prev.points) + 1 = 1 THEN MeasurementData(<<point>>, None, None)
    ELSE IF Len(prev.points) + 1 = 2
    THEN measured(Append(prev.points, point),
                  searched(calculateGeodesicPath(prev.points[1], point, TRUE, vertices, indices)))
    ELSE MeasurementData(<<point>>, None, None)

\* ViewportPanel: isMeasurementMode, measurementData, the columns and heights of the surface
\* shown, and of the last event what it was, the point clicked and the points held before it
Measuring(mode, data, columns, height, event, point, held) ==
    [isMeasurementMode |-> mode, measurementData |-> data, columns |-> columns,
     height |-> height, event |-> event, point |-> point, held |-> held]

handleToggleMeasurement ==
    /\ measurement # None
    /\ measurement' = Some(Measuring(~measurement[1].isMeasurementMode,
                                     IF measurement[1].isMeasurementMode
                                     THEN MeasurementData(<<>>, None, None)
                                     ELSE measurement[1].measurementData,
                                     measurement[1].columns, measurement[1].height,
                                     "toggle", measurement[1].point,
                                     Len(measurement[1].measurementData.points)))
    /\ OnlyChanges("measurement")

\* surfaceData.geometry of the surface shown
measuredVertices == gridVertices(measurement[1].columns, measurement[1].height)

handleSurfaceClick(point) ==
    /\ measurement # None
    /\ measurement' = Some(Measuring(measurement[1].isMeasurementMode,
                                     IF ~measurement[1].isMeasurementMode
                                     THEN measurement[1].measurementData
                                     ELSE clicked(measurement[1].measurementData, point,
                                                  measuredVertices,
                                                  gridIndices(measurement[1].columns)),
                                     measurement[1].columns, measurement[1].height,
                                     "click", point,
                                     Len(measurement[1].measurementData.points)))
    /\ OnlyChanges("measurement")

InitMeasurement ==
    /\ SceneIdle /\ FxIdleBut({"measurement"})
    /\ \E columns \in 2..MaxColumns :
        \E height \in Heights(columns) :
            measurement = Some(Measuring(FALSE, MeasurementData(<<>>, None, None), columns,
                                         height, "none", <<0, 0, 0>>, 0))

NextMeasurement ==
    \/ handleToggleMeasurement
    \/ /\ measurement # None
       /\ \E point \in ClickPoints(measuredVertices, measurement[1].columns) :
            handleSurfaceClick(point)

SpecMeasurement == InitMeasurement /\ [][NextMeasurement]_vars

-----------------------------------------------------------------------------
(* services/lyapunov.ts.  The perturbation of the estimator is one          *)
(* thousandth, so its numbers are integers in millionths: 1000 stands for   *)
(* 0.001.  MaxMicro stands for Number.MAX_VALUE, MicroInfinity and MicroNaN *)
(* for Infinity and NaN.  A product, a quotient, a square root and a         *)
(* logarithm are rounded towards zero.                                      *)

MaxMicro == 1000 * 1000000
MicroInfinity == MaxMicro + 1
MicroNaN == MaxMicro + 2

mFinite(a) == a >= -MaxMicro /\ a <= MaxMicro
mStored(n) == IF n > MaxMicro THEN MicroInfinity ELSE IF n < -MaxMicro THEN -MicroInfinity ELSE n
mAbs(a) == IF a < 0 THEN -a ELSE a

\* -a, a + b, a - b
mNeg(a) == IF a = MicroNaN THEN MicroNaN ELSE -a
mAdd(a, b) ==
    IF a = MicroNaN \/ b = MicroNaN THEN MicroNaN
    ELSE IF ~mFinite(a) /\ ~mFinite(b) THEN IF a = b THEN a ELSE MicroNaN
    ELSE IF ~mFinite(a) THEN a
    ELSE IF ~mFinite(b) THEN b
    ELSE mStored(a + b)
mSub(a, b) == mAdd(a, mNeg(b))

\* (1000 a1 + a0) * (1000 b1 + b0) / 1000000, for digits that are not negative
productOfParts(a1, a0, b1, b0) ==
    IF b1 > 0 /\ a1 > MaxMicro \div b1 THEN MicroInfinity
    ELSE mStored(a1 * b1 + ((a1 * b0 + a0 * b1) \div 1000)
                 + (((a1 * b0 + a0 * b1) % 1000) * 1000 + a0 * b0) \div 1000000)

\* a * b
mMul(a, b) ==
    IF a = MicroNaN \/ b = MicroNaN THEN MicroNaN
    ELSE IF ~mFinite(a) \/ ~mFinite(b)
    THEN IF a = 0 \/ b = 0 THEN MicroNaN
         ELSE IF (a > 0) = (b > 0) THEN MicroInfinity ELSE -MicroInfinity
    ELSE IF (a >= 0) = (b >= 0)
    THEN productOfParts(mAbs(a) \div 1000, mAbs(a) % 1000, mAbs(b) \div 1000, mAbs(b) % 1000)
    ELSE -productOfParts(mAbs(a) \div 1000, mAbs(a) % 1000, mAbs(b) \div 1000, mAbs(b) % 1000)

RECURSIVE decimals(_, _, _)
\* the first n decimals of r / b, for 0 <= r < b
decimals(r, b, n) ==
    IF n = 0 THEN 0
    ELSE ((r * 10) \div b) * <<1, 10, 100, 1000, 10000, 100000>>[n] + decimals((r * 10) % b, b, n - 1)

\* a / b for a >= 0 and b > 0; a divisor above 200 stands with two digits less
quotientOfSizes(a, b) ==
    IF b > 200000000 THEN mStored(((a \div 100) \div (b \div 100)) * 1000000
                                  + decimals((a \div 100) % (b \div 100), b \div 100, 6))
    ELSE IF a \div b > MaxMicro \div 1000000 THEN MicroInfinity
    ELSE mStored((a \div b) * 1000000 + decimals(a % b, b, 6))

\* a / b
mDiv(a, b) ==
    IF a = MicroNaN \/ b = MicroNaN THEN MicroNaN
    ELSE IF ~mFinite(a) THEN IF ~mFinite(b) THEN MicroNaN
                             ELSE IF (a > 0) = (b >= 0) THEN MicroInfinity ELSE -MicroInfinity
    ELSE IF ~mFinite(b) THEN 0
    ELSE IF b = 0 THEN IF a = 0 THEN MicroNaN ELSE IF a > 0 THEN MicroInfinity ELSE -MicroInfinity
    ELSE IF (a >= 0) = (b > 0) THEN quotientOfSizes(mAbs(a), mAbs(b))
    ELSE -quotientOfSizes(mAbs(a), mAbs(b))

\* Math.sqrt(dx * dx + dy * dy): exact to the millionth for sides up to 0.03
mHypot(dx, dy) ==
    IF dx = MicroNaN \/ dy = MicroNaN THEN MicroNaN
    ELSE IF ~mFinite(dx) \/ ~mFinite(dy) THEN MicroInfinity
    ELSE IF mAbs(dx) <= 30000 /\ mAbs(dy) <= 30000
    THEN sqrtBetween(dx * dx + dy * dy, 0, 46340)
    ELSE IF mAbs(dx) <= 3000000 /\ mAbs(dy) <= 3000000
    THEN 100 * sqrtBetween((mAbs(dx) \div 100) * (mAbs(dx) \div 100)
                           + (mAbs(dy) \div 100) * (mAbs(dy) \div 100), 0, 46340)
    ELSE mStored(100000 * sqrtBetween((mAbs(dx) \div 100000) * (mAbs(dx) \div 100000)
                                      + (mAbs(dy) \div 100000) * (mAbs(dy) \div 100000), 0, 21000))

\* 2 artanh z = 2 (z + z^3/3 + ... + z^11/11), for the z of a number in [1, 2)
twiceArtanh(z, zz) ==
    2 * (z + mMul(z, zz) \div 3 + mMul(z, mMul(zz, zz)) \div 5
           + mMul(z, mMul(zz, mMul(zz, zz))) \div 7
           + mMul(z, mMul(mMul(zz, zz), mMul(zz, zz))) \div 9
           + mMul(z, mMul(zz, mMul(mMul(zz, zz), mMul(zz, zz)))) \div 11)

RECURSIVE logOfSize(_, _)
\* ln(m 2^k) = k ln 2 + 2 artanh((m - 1) / (m + 1)), with m in [1, 2): ln 1 is 0
logOfSize(q, k) ==
    IF q < 1000000 THEN logOfSize(2 * q, k - 1)
    ELSE IF q >= 2000000 THEN logOfSize(q \div 2, k + 1)
    ELSE k * 693147
         + twiceArtanh(quotientOfSizes(q - 1000000, q + 1000000),
                       mMul(quotientOfSizes(q - 1000000, q + 1000000),
                            quotientOfSizes(q - 1000000, q + 1000000)))

\* Math.log(q)
mLn(q) ==
    IF q = MicroNaN \/ q < 0 THEN MicroNaN
    ELSE IF q = 0 THEN -MicroInfinity
    ELSE IF q = MicroInfinity THEN MicroInfinity
    ELSE logOfSize(q, 0)

\* a > b: false when either is NaN
mGt(a, b) == a # MicroNaN /\ b # MicroNaN /\ a > b

SIM_STEPS == 100
PERTURBATION == 1

\* the side of the grid of exponents
LyapunovGridSide == 2

\* 0 ; x^2 + y^2 ; -(x^2) ; x^3 ; 1000 * y * STEP(0.5005, x)
LyapunovExprs == {"0", "x^2+y^2", "-(x^2)", "x^3", "1000*y*STEP(0.5005,x)"}

\* mathParser.evaluate(surfaceData.plotExpr) with x and y set
evaluateSurface(plotExpr, x, y) ==
    CASE plotExpr = "0" -> 0
      [] plotExpr = "x^2+y^2" -> mAdd(mMul(x, x), mMul(y, y))
      [] plotExpr = "-(x^2)" -> mNeg(mMul(x, x))
      [] plotExpr = "x^3" -> mMul(x, mMul(x, x))
      [] plotExpr = "1000*y*STEP(0.5005,x)" ->
            mMul(mMul(MaxMicro, y), IF x # MicroNaN /\ x >= 500500 THEN 1000000 ELSE 0)

\* the potentialFn ViewportPanel passes: isNaN(z) || !isFinite(z) ? 0 : z
surfacePotentialFn(plotExpr, x, y) ==
    IF mFinite(evaluateSurface(plotExpr, x, y)) THEN evaluateSurface(plotExpr, x, y) ELSE 0

\* computeGradient of lyapunov.ts: central differences with h = 0.01
futureGradient(plotExpr, x, y) ==
    [dx |-> mDiv(mSub(surfacePotentialFn(plotExpr, mAdd(x, 10000), y),
                      surfacePotentialFn(plotExpr, mSub(x, 10000), y)), 20000),
     dy |-> mDiv(mSub(surfacePotentialFn(plotExpr, x, mAdd(y, 10000)),
                      surfacePotentialFn(plotExpr, x, mSub(y, 10000))), 20000)]

\* vx += ax * SIM_DT with ax = -damping * vx - forceCoupling * grad.dx, and so vy
futureVelocity(p, damping, forceCoupling, grad) ==
    [p EXCEPT !.vx = mAdd(@, mMul(mSub(mMul(mNeg(damping), p.vx), mMul(forceCoupling, grad.dx)),
                                  SIM_DT * 1000)),
              !.vy = mAdd(@, mMul(mSub(mMul(mNeg(damping), p.vy), mMul(forceCoupling, grad.dy)),
                                  SIM_DT * 1000))]

\* x += vx * SIM_DT; y += vy * SIM_DT
futurePosition(p) ==
    [p EXCEPT !.x = mAdd(@, mMul(p.vx, SIM_DT * 1000)), !.y = mAdd(@, mMul(p.vy, SIM_DT * 1000))]

\* one pass of the loop of integrateFuture
integrateFuture(p, plotExpr, damping, forceCoupling) ==
    futurePosition(futureVelocity(p, damping, forceCoupling, futureGradient(plotExpr, p.x, p.y)))

\* totalDivergence after the pass of the loop of calculateLyapunovExponent for p1 and p2
divergedBy(totalDivergence, distance) ==
    IF mGt(distance, 0) THEN mAdd(totalDivergence, mLn(mDiv(distance, PERTURBATION * 1000)))
    ELSE totalDivergence
totalAfter(totalDivergence, p1, p2) ==
    IF ~mFinite(p1.x) \/ ~mFinite(p2.x) THEN totalDivergence
    ELSE divergedBy(totalDivergence, mHypot(mSub(p1.x, p2.x), mSub(p1.y, p2.y)))

\* xRange.min + (i / (width - 1)) * (xRange.max - xRange.min)
gridPoint(range, i, width) ==
    mAdd(range.min, mMul(mDiv(i * 1000000, (width - 1) * 1000000), mSub(range.max, range.min)))

\* let x = startX; let y = startY; let vx = 0; let vy = 0
futureFrom(x, y) == [x |-> x, y |-> y, vx |-> 0, vy |-> 0]

\* the normalisation of generateLyapunovGrid
normalised(data, maxExponent) ==
    IF mGt(maxExponent, 0)
    THEN [k \in 1..Len(data) |->
            IF mGt(mDiv(data[k], maxExponent), 0) THEN mDiv(data[k], maxExponent) ELSE 0]
    ELSE data

\* generateLyapunovGrid at cell (i, j), the pass `step` of the estimate of the cell
Estimating(args, j, i, step, p1, p2, totalDivergence, data, maxExponent, returned) ==
    [args |-> args, j |-> j, i |-> i, step |-> step, p1 |-> p1, p2 |-> p2,
     totalDivergence |-> totalDivergence, data |-> data, maxExponent |-> maxExponent,
     returned |-> returned]

\* the estimate of cell (i, j) begun
cellBegun(args, j, i, data, maxExponent) ==
    Estimating(args, j, i, 0,
               futureFrom(gridPoint(args.xRange, i, args.width), gridPoint(args.yRange, j, args.height)),
               futureFrom(mAdd(gridPoint(args.xRange, i, args.width), PERTURBATION * 1000),
                          gridPoint(args.yRange, j, args.height)),
               0, data, maxExponent, FALSE)

\* one pass of the loops of integrateFuture for both trajectories and of the loop of
\* calculateLyapunovExponent
steppedOn(L, p1, p2) ==
    Estimating(L.args, L.j, L.i, L.step + 1, p1, p2, totalAfter(L.totalDivergence, p1, p2),
               L.data, L.maxExponent, FALSE)

FutureStep ==
    /\ lyapunov # None
    /\ ~lyapunov[1].returned
    /\ lyapunov[1].step < SIM_STEPS
    /\ lyapunov' = Some(steppedOn(lyapunov[1],
                            integrateFuture(lyapunov[1].p1, lyapunov[1].args.plotExpr,
                                            lyapunov[1].args.damping, lyapunov[1].args.forceCoupling),
                            integrateFuture(lyapunov[1].p2, lyapunov[1].args.plotExpr,
                                            lyapunov[1].args.damping, lyapunov[1].args.forceCoupling)))
    /\ OnlyChanges("lyapunov")

\* the grid after the exponent of cell (i, j) is known: the store, the next cell, and
\* after the last cell the normalisation and the return
exponentStored(L, exponent) ==
    IF L.i + 1 < L.args.width
    THEN cellBegun(L.args, L.j, L.i + 1,
                   Append(L.data, IF mFinite(exponent) THEN exponent ELSE 0),
                   IF mFinite(exponent) /\ exponent > L.maxExponent THEN exponent ELSE L.maxExponent)
    ELSE IF L.j + 1 < L.args.height
    THEN cellBegun(L.args, L.j + 1, 0,
                   Append(L.data, IF mFinite(exponent) THEN exponent ELSE 0),
                   IF mFinite(exponent) /\ exponent > L.maxExponent THEN exponent ELSE L.maxExponent)
    ELSE Estimating(L.args, L.j, L.i, L.step, L.p1, L.p2, L.totalDivergence,
                    normalised(Append(L.data, IF mFinite(exponent) THEN exponent ELSE 0),
                               IF mFinite(exponent) /\ exponent > L.maxExponent
                               THEN exponent ELSE L.maxExponent),
                    IF mFinite(exponent) /\ exponent > L.maxExponent THEN exponent ELSE L.maxExponent,
                    TRUE)

generateLyapunovGrid ==
    /\ lyapunov # None
    /\ ~lyapunov[1].returned
    /\ lyapunov[1].step = SIM_STEPS
    /\ lyapunov' = Some(exponentStored(lyapunov[1],
                               mDiv(lyapunov[1].totalDivergence, SIM_STEPS * 1000000)))
    /\ OnlyChanges("lyapunov")

\* the arguments of generateLyapunovGrid
LyapunovArgs ==
    [plotExpr : LyapunovExprs, damping : {500000}, forceCoupling : {2000000, 20000000},
     xRange : {[min |-> -500000, max |-> 500000]},
     yRange : {[min |-> 0, max |-> 500000], [min |-> -500000, max |-> 500000]},
     width : {LyapunovGridSide}, height : {LyapunovGridSide}]

InitLyapunov ==
    /\ SceneIdle /\ FxIdleBut({"lyapunov"})
    /\ \E args \in LyapunovArgs :
        lyapunov = Some(cellBegun(args, 0, 0, <<>>, -MicroInfinity))

NextLyapunov == FutureStep \/ generateLyapunovGrid

SpecLyapunov == InitLyapunov /\ [][NextLyapunov]_vars

-----------------------------------------------------------------------------
(* What the claims speak of *)

\* the last completed parse attempt: its text, its logical lines, what parseG3D did with it
Attempted == parsedCode # None
AttemptLines == lastParse[1].lines
Attempt == lastParse[1].result

\* a SET RANGE statement whose min is not less than its max
IsUnorderedRange(s) ==
    /\ rangeMatch(s) # None
    /\ LET min == parseFloat(<<rangeMatch(s)[1][2]>>)
           max == parseFloat(<<rangeMatch(s)[1][3]>>)
       IN  ~isNaN(min) /\ ~isNaN(max) /\ min.v >= max.v

\* a PARTICLES statement whose count exceeds the ceiling
IsExcessParticles(s) ==
    particlesMatch(s) # None /\ parseInt(particlesMatch(s)[1][1]) > MAX_PARTICLES

\* the logical lines of the attempt that are statements of one kind
StatementsOf(kw) == {k \in 1..Len(AttemptLines) : StartsWithKeyword(AttemptLines[k].text, kw)}
UnorderedRanges == {k \in 1..Len(AttemptLines) : IsUnorderedRange(AttemptLines[k].text)}
ExcessParticles == {k \in 1..Len(AttemptLines) : IsExcessParticles(AttemptLines[k].text)}

\* the name a DEF statement defines; "" for a line that defines none
DefinedName(s) ==
    IF defConstGuard(s) THEN Join(stripSpaces(trim(defConstMatch(s)[1][1])))
    ELSE IF defVecExplicitMatch(s) # None THEN defVecExplicitMatch(s)[1][1]
    ELSE IF defTensorExplicitMatch(s) # None THEN defTensorExplicitMatch(s)[1][1]
    ELSE IF defFnMatch(s) # None THEN defFnMatch(s)[1][1]
    ELSE ""

\* the number of atoms a in s
CountAtom(s, a) == Cardinality({k \in 1..Len(s) : s[k] = a})

\* one bracket level with exactly 3 comma-separated components
IsTriple(body) ==
    /\ At(body, 1) = "[" /\ endsWith(body, "]")
    /\ CountAtom(body, "[") = 1 /\ CountAtom(body, "]") = 1
    /\ Len(split(SubSeq(body, 2, Len(body) - 1), ",")) = 3

\* two nested bracket levels forming a 2x2 block
IsTwoByTwo(body) ==
    /\ At(body, 1) = "[" /\ At(body, 2) = "["
    /\ At(body, Len(body)) = "]" /\ At(body, Len(body) - 1) = "]"
    /\ CountAtom(body, "[") = 3 /\ CountAtom(body, "]") = 3 /\ CountAtom(body, ",") = 3

NothingToRender == "No PLOT3D, PLOT_VECFIELD, or PLOT_TENSOR statement found. Nothing to render."

-----------------------------------------------------------------------------
(* The claims *)

\* C1: after every completed parse attempt the host holds exactly one of the two: the IR
\* the parser returned and no diagnostic when the parse succeeded, or the diagnostic and
\* no IR when it failed.
C1_IrOrDiagnostic ==
    Attempted =>
        /\ (graphData # None /\ error = None) \/ (graphData = None /\ error # None)
        /\ Attempt.thrown = None => graphData = Some(Attempt.ir)
        /\ Attempt.thrown # None => graphData = None /\ error = Attempt.thrown

\* a parse that failed on a text whose first line alone is a program that parses
C1_FailedParse ==
    /\ Attempted /\ graphData = None /\ error # None
    /\ Len(parsedCode[1]) >= 2 /\ parsedCode[1][1] = Plot3dLine

C3_LineIsSourceLine ==
    (Attempted /\ error # None /\ error[1].line # None) =>
        error[1].line[1] \in Attempt.at[1].first .. Attempt.at[1].last

\* the reported line lies before the source lines of the statement that threw
C3_ReportedBeforeStatement ==
    /\ Attempted /\ error # None /\ error[1].line # None
    /\ error[1].line[1] < Attempt.at[1].first

\* C4: every IR has min < max on each axis; a SET RANGE statement whose min is not less
\* than its max makes the parse fail with a line-numbered error (the "Min value" error
\* when that statement is the one that throws), and its bounds reach no IR.
C4_RangesOrdered ==
    Attempted =>
        /\ graphData # None =>
               \A axis \in {"x", "y", "z"} :
                   graphData[1].ranges[axis].min < graphData[1].ranges[axis].max
        /\ UnorderedRanges # {} =>
               graphData = None /\ error # None /\ error[1].line # None
        /\ (Attempt.at # None /\ IsUnorderedRange(Attempt.at[1].text)) =>
               error[1].cause = "Min value must be less than max value in RANGE statement."

\* a parse that the "Min value" error ended
C4_UnorderedRejected ==
    /\ Attempted /\ graphData = None /\ error # None
    /\ Attempt.at # None /\ IsUnorderedRange(Attempt.at[1].text)
    /\ error[1].cause = "Min value must be less than max value in RANGE statement."

\* C5: a program in which two DEF statements define the same name fails to parse.
C5_NoRedefinition ==
    (/\ Attempted
     /\ \E j, k \in 1..Len(AttemptLines) :
            /\ j < k
            /\ DefinedName(AttemptLines[j].text) # ""
            /\ DefinedName(AttemptLines[j].text) = DefinedName(AttemptLines[k].text))
    => graphData = None

\* DEF FNA(x,y) = x / DEF FNA(x,y) = y / PLOT3D FNA(x,y) parsed, with the later body in the IR
C5_FunctionReplaced ==
    /\ parsedCode = Some(<<DefFnALine, DefFnAAgainLine, Plot3dLine>>)
    /\ graphData # None
    /\ graphData[1].functions = <<[name |-> "FNA", params |-> <<"x", "y">>, body |-> <<"y">>]>>

\* C6: a PARTICLES statement above the ceiling makes the parse fail with a line-numbered
\* error and no IR (the "exceeds" error, on line 1, for the text PARTICLES 99999), so the
\* count of every IR that has particles is in 1..MAX_PARTICLES.
C6_ParticleCeiling ==
    Attempted =>
        /\ (graphData # None /\ graphData[1].particles # None) =>
               graphData[1].particles[1].count \in 1..MAX_PARTICLES
        /\ ExcessParticles # {} =>
               graphData = None /\ error # None /\ error[1].line # None
        /\ (Attempt.at # None /\ IsExcessParticles(Attempt.at[1].text)) =>
               error[1].cause \in {"Particle count exceeds the maximum limit.",
                                   "Multiple PARTICLES statements found. Only one is allowed."}
        /\ parsedCode[1] = <<Particles99999Line>> =>
               /\ graphData = None
               /\ error = Some(LineError(1, "Particle count exceeds the maximum limit."))

\* PARTICLES 99999, after a line that parses, was refused
C6_ExcessRefused ==
    /\ Attempted /\ graphData = None /\ error # None
    /\ Attempt.at # None /\ IsExcessParticles(Attempt.at[1].text)
    /\ error[1].cause = "Particle count exceeds the maximum limit."

\* C7: every IR holds a Surface plot; for a program without a PLOT3D statement it is the
\* implicit surface of expression 0, put before the plots the program declares.
C7_SurfaceExists ==
    (Attempted /\ graphData # None) =>
        /\ \E k \in 1..Len(graphData[1].plots) : graphData[1].plots[k].type = "surface"
        /\ StatementsOf("PLOT3D") = {} =>
               /\ graphData[1].plots[1] = [type |-> "surface", expr |-> <<"0">>]
               /\ Len(graphData[1].plots) >= 2
               /\ \A k \in 2..Len(graphData[1].plots) :
                      graphData[1].plots[k].type \in {"vector", "tensor"}

\* an IR for a program of vector and tensor plots only
C7_ImplicitSurface ==
    /\ Attempted /\ graphData # None
    /\ StatementsOf("PLOT3D") = {}
    /\ graphData[1].plots[1].expr = <<"0">>

\* C8: in every IR the body of a VEC_ function is one bracket level with exactly 3
\* components, and the body of a TENSOR_ function a 2x2 block.
C8_BodiesShaped ==
    (Attempted /\ graphData # None) =>
        \A k \in 1..Len(graphData[1].functions) :
            LET f == graphData[1].functions[k]
            IN  /\ f.name \in VecNames => IsTriple(f.body)
                /\ f.name \in TensorNames => IsTwoByTwo(f.body)

\* DEF VEC_V(x,y) = [x, y] / PLOT_VECFIELD VEC_V parsed, with the two-component body in the IR
C8_PairAccepted ==
    /\ parsedCode = Some(<<DefVec2Line, PlotVecFieldLine>>)
    /\ graphData # None
    /\ graphData[1].functions =
           <<[name |-> "VEC_V", params |-> <<"x", "y">>, body |-> <<"[", "x", ",", " ", "y", "]">>]>>

\* C9: a program with more than one ANIMATE or more than one CONTOUR statement fails to
\* parse; an IR holds one Animation per ANIMATE statement and one Contour per CONTOUR
\* statement of its program, so at most one of each.
C9_AtMostOnce ==
    Attempted =>
        /\ (\/ Cardinality(StatementsOf("ANIMATE")) > 1
            \/ Cardinality(StatementsOf("CONTOUR")) > 1) =>
               graphData = None /\ error # None
        /\ graphData # None =>
               /\ Len(graphData[1].animation) = Cardinality(StatementsOf("ANIMATE"))
               /\ Len(graphData[1].contours) = Cardinality(StatementsOf("CONTOUR"))
               /\ Len(graphData[1].animation) <= 1 /\ Len(graphData[1].contours) <= 1

\* the second ANIMATE statement of a program was refused
C9_SecondAnimateRefused ==
    /\ Attempted /\ graphData = None /\ error # None
    /\ Cardinality(StatementsOf("ANIMATE")) > 1
    /\ error[1].cause = "Multiple ANIMATE statements found. Only one is allowed."

\* what C10 has in common with its amendment: one Surface plot, no animation, the default
\* color map, no labels, no particles
SaddleShape(ir) ==
    /\ Len(ir.plots) = 1 /\ ir.plots[1].type = "surface"
    /\ ir.animation = None /\ ir.colorMap = "default"
    /\ ir.labels = <<>> /\ ir.particles = None

\* C10 as it was claimed: the Surface plot of the saddle program has expression x^2 - y^2.
C10_PlotOfBody ==
    parsedCode = Some(SaddleProgram) =>
        /\ graphData # None /\ SaddleShape(graphData[1])
        /\ graphData[1].plots[1].expr = <<"x", "^", "2", " ", "-", " ", "y", "^", "2">>

\* C10, amended: the Surface plot has the expression FNSADDLE(x,y) as written, and the IR
\* holds the function FNSADDLE(x,y) of body x^2 - y^2 and the three ranges.
C10_PlotOfCall ==
    parsedCode = Some(SaddleProgram) =>
        /\ graphData # None /\ error = None /\ SaddleShape(graphData[1])
        /\ graphData[1].plots[1].expr = <<"FNSADDLE", "(", "x", ",", "y", ")">>
        /\ graphData[1].functions =
               <<[name |-> "FNSADDLE", params |-> <<"x", "y">>,
                  body |-> <<"x", "^", "2", " ", "-", " ", "y", "^", "2">>]>>
        /\ graphData[1].ranges = [x |-> [min |-> -200, max |-> 200],
                                  y |-> [min |-> -200, max |-> 200],
                                  z |-> [min |-> -400, max |-> 400]]

\* the saddle program was parsed
C10_SaddleParsed == parsedCode = Some(SaddleProgram) /\ graphData # None

-----------------------------------------------------------------------------
(* The particles *)

\* a physics frame has run
Stepped == stepLog.frames > 0

\* c lies in the range r
Within(c, r) == fGe(c, r.min) /\ fGe(r.max, c)

\* C11: after the boundary handling of a step every particle lies within every
\* configured range: min <= x <= max and min <= y <= max.
C11_WithinRanges ==
    Stepped =>
        \A i \in 1..Len(particles) :
            /\ Within(stepLog.bounced[i].x, props[1].xRange)
            /\ Within(stepLog.bounced[i].y, props[1].yRange)

\* a particle that the boundary handling has moved onto +max of a range below it
C11_BouncedOutOfRange ==
    /\ Stepped
    /\ props[1].xRange.min < props[1].xRange.max
    /\ \E i \in 1..Len(particles) :
        /\ isFinite(stepLog.bounced[i].x)
        /\ ~Within(stepLog.bounced[i].x, props[1].xRange)

\* C12: after the safety check of a step the position and the velocity of
\* every particle are finite numbers.
C12_FiniteState ==
    Stepped =>
        \A i \in 1..Len(particles) :
            /\ isFinite(particles[i].x) /\ isFinite(particles[i].y)
            /\ isFinite(particles[i].vx) /\ isFinite(particles[i].vy)

\* a particle left at a finite position with a velocity that is not finite
C12_VelocityNotFinite ==
    /\ Stepped
    /\ \E i \in 1..Len(particles) :
        /\ isFinite(particles[i].x) /\ isFinite(particles[i].y)
        /\ ~isFinite(particles[i].vy)

\* t is the last Len(t) elements of s
IsSuffix(t, s) ==
    /\ Len(t) <= Len(s)
    /\ \A k \in 1..Len(t) : t[k] = s[Len(s) - Len(t) + k]

\* C13: after every step a trail holds at most trailLength points, whatever
\* changes of trailLength were made, and the points it lost are its oldest.
C13_TrailWithinCap ==
    Stepped =>
        \A i \in 1..Len(particles) :
            /\ Len(particles[i].trail) <= stepLog.trailLength
            /\ IsSuffix(particles[i].trail, stepLog.pushed[i])

\* a step has run with the lowered trailLength and left a longer trail
C13_TrailAboveCap ==
    /\ Stepped
    /\ props[1].showTrails
    /\ props[1].trailLength = stepLog.trailLength
    /\ \E i \in 1..Len(particles) :
        /\ Len(particles[i].trail) > props[1].trailLength
        /\ IsSuffix(particles[i].trail, stepLog.pushed[i])

-----------------------------------------------------------------------------
(* The binding of the functions *)

\* C14: binding N functions ends after at most N + 1 passes; a pass is
\* started only if the pass before it bound a function; a function that fails
\* to bind is kept for later and nothing is thrown: when the parser is
\* returned every function is either bound or still remaining.
C14_PassesBounded ==
    binder # None =>
        /\ binder[1].passes <= Len(binder[1].functions) + 1
        /\ binder[1].passes = Len(binder[1].boundInPass)
        /\ \A k \in 1..(Len(binder[1].boundInPass) - 1) : binder[1].boundInPass[k] >= 1
        /\ binder[1].returned =>
              \A k \in 1..Len(binder[1].functions) :
                  Bound(binder[1].scope, binder[1].functions[k].name)
                      # HasFunction(binder[1].remaining, binder[1].functions[k].name)

\* the parser is returned after a last pass in which nothing could be bound
C14_LastPassBoundNothing ==
    /\ binder # None
    /\ binder[1].returned
    /\ binder[1].passes >= 2
    /\ binder[1].boundInPass[binder[1].passes] = 0
    /\ binder[1].remaining # <<>>

\* the names of functions that the body of a function mentions
referencesOf(functions, name) ==
    UNION {{functions[k].body[j] : j \in 1..Len(functions[k].body)} :
              k \in {i \in 1..Len(functions) : functions[i].name = name}}
        \cap namesOf(functions)

RECURSIVE reachedFrom(_, _, _)
\* the names reached from those of frontier by one reference or more
reachedFrom(functions, frontier, seen) ==
    IF UNION {referencesOf(functions, n) : n \in frontier} \subseteq seen
    THEN seen
    ELSE reachedFrom(functions, UNION {referencesOf(functions, n) : n \in frontier} \ seen,
                     seen \cup UNION {referencesOf(functions, n) : n \in frontier})

\* no function refers to itself, directly or through others
Acyclic(functions) ==
    \A n \in namesOf(functions) : n \notin reachedFrom(functions, {n}, {})

\* every name a constant mentions is a numeral or the name of one of the functions
Closed(functions) ==
    \A k \in 1..Len(functions) :
        functions[k].params = <<>> =>
            \A j \in 1..Len(functions[k].body) :
                functions[k].body[j] \in (DOMAIN NumeralValue) \cup namesOf(functions)

\* the constants that can be evaluated once the names of bound are bound
bindableWith(functions, bound) ==
    {functions[k].name : k \in {i \in 1..Len(functions) :
        \/ functions[i].params # <<>>
        \/ \A j \in 1..Len(functions[i].body) :
              functions[i].body[j] \in (DOMAIN NumeralValue) \cup bound}}

RECURSIVE bindable(_, _)
\* the functions that can ever be bound, whatever the order
bindable(functions, bound) ==
    IF bindableWith(functions, bound) \subseteq bound THEN bound
    ELSE bindable(functions, bound \cup bindableWith(functions, bound))

\* C15: when the functions refer only to one another and these references are
\* acyclic, every function is bound at the end, in whatever order they were
\* declared; what is left unbound is what can never bind (it is on a cycle or
\* needs a name that is not defined), and it is what is reported.
C15_ForwardReferencesResolved ==
    (binder # None /\ binder[1].returned) =>
        /\ (Acyclic(binder[1].functions) /\ Closed(binder[1].functions)) => binder[1].remaining = <<>>
        /\ namesOf(binder[1].remaining)
              = namesOf(binder[1].functions) \ bindable(binder[1].functions, {})
        /\ binder[1].reported = namesOf(binder[1].remaining)

\* three constants declared before what they refer to, bound in three passes
C15_ChainBoundBackwards ==
    /\ binder # None
    /\ binder[1].returned
    /\ Len(binder[1].functions) = 3
    /\ Acyclic(binder[1].functions)
    /\ binder[1].passes = 3
    /\ binder[1].remaining = <<>>

-----------------------------------------------------------------------------
(* The evaluator and its callers *)

\* C16: two evaluations of the same function at the same arguments give the
\* same value, whatever was evaluated or assigned in between.
C16_SameInputsSameValue ==
    evaluator # None =>
        \A m, n \in 1..Len(evaluator[1].answers) :
            (evaluator[1].answers[m].a = evaluator[1].answers[n].a
                /\ evaluator[1].answers[m].b = evaluator[1].answers[n].b)
            => evaluator[1].answers[m].value = evaluator[1].answers[n].value

\* FNA(x,y) = RAND() answers two consecutive identical calls differently though no
\* variable was ever set
C16_RandomAnswer ==
    /\ evaluator # None
    /\ evaluator[1].body = "RAND()"
    /\ evaluator[1].scope = [x |-> None, y |-> None, t |-> None]
    /\ Len(evaluator[1].answers) = 2
    /\ evaluator[1].answers[1].a = evaluator[1].answers[2].a
    /\ evaluator[1].answers[1].b = evaluator[1].answers[2].b
    /\ evaluator[1].answers[1].value # evaluator[1].answers[2].value

\* every coordinate of every position is a finite number
AllFinite(positions) ==
    \A k \in 1..Len(positions) : \A c \in 1..3 : isFinite(positions[k][c])

\* C17: when a sample throws or is NaN or +-Infinity, the algorithm goes on
\* with 0 in its place: nothing that is not finite reaches what it puts out.
C17_SamplesCoerced ==
    sampler # None => AllFinite(sampler[1].drawn.positions)

\* a square of the contour with a corner sample that is not finite, and a position
\* in its output that is not finite
C17_ContourNotFinite ==
    /\ sampler # None
    /\ sampler[1].drawn.caller = "CriticalTransitionContour"
    /\ sampler[1].drawn.failed
    /\ ~AllFinite(sampler[1].drawn.positions)

-----------------------------------------------------------------------------
(* The geodesic *)

\* the sides of the triangles, each once
sidesOf(g) ==
    {{meshEdges(g.indices)[k][1], meshEdges(g.indices)[k][2]} : k \in 1..Len(g.indices)}

\* the least of a set of lengths, Infinity when there is none
Least(lengths) ==
    IF lengths = {} THEN Infinity ELSE CHOOSE l \in lengths : \A m \in lengths : l <= m

RECURSIVE walkLengths(_, _, _, _)
\* the lengths of the walks from u to v along the sides that pass no vertex twice and
\* none of visited
walkLengths(g, u, v, visited) ==
    IF u = v THEN {0}
    ELSE UNION {{distanceTo(g.vertices[u + 1], g.vertices[n + 1]) + l :
                    l \in walkLengths(g, n, v, visited \cup {n})} :
                n \in {w \in 0..(Len(g.vertices) - 1) : w \notin visited /\ {u, w} \in sidesOf(g)}}

\* the shortest-path distance in the mesh graph between the vertices u and v
shortestPath(g, u, v) == Least(walkLengths(g, u, v, {u}))

\* no vertex is nearer to point than the vertex v
IsNearest(g, v, point) ==
    \A k \in 1..Len(g.vertices) :
        distanceTo(point, g.vertices[v + 1]) <= distanceTo(point, g.vertices[k])

\* C18: the distance returned is the distance of the start point to a nearest
\* vertex, plus the shortest-path distance in the mesh graph between the two
\* nearest vertices, plus the distance of the end point to a nearest vertex.
C18_ShortestPlusSnapping ==
    (geodesic # None /\ geodesic[1].returned # None) =>
        /\ IsNearest(geodesic[1], geodesic[1].startVertexIndex, geodesic[1].startPoint)
        /\ IsNearest(geodesic[1], geodesic[1].endVertexIndex, geodesic[1].endPoint)
        /\ geodesic[1].returned[1].distance
              = distanceTo(geodesic[1].startPoint, geodesic[1].vertices[geodesic[1].startVertexIndex + 1])
                + shortestPath(geodesic[1], geodesic[1].startVertexIndex, geodesic[1].endVertexIndex)
                + distanceTo(geodesic[1].endPoint, geodesic[1].vertices[geodesic[1].endVertexIndex + 1])

\* a search that broke off on the end vertex with the queue not empty, between points
\* off the vertices, over two sides or more
C18_EarlyStop ==
    /\ geodesic # None /\ geodesic[1].returned # None
    /\ geodesic[1].broken /\ geodesic[1].pq # <<>>
    /\ Len(geodesic[1].returned[1].path) >= 3
    /\ geodesic[1].startPoint # geodesic[1].vertices[geodesic[1].startVertexIndex + 1]
    /\ geodesic[1].endPoint # geodesic[1].vertices[geodesic[1].endVertexIndex + 1]

\* C19: the path returned begins with the start point and ends with the end
\* point, and between them it is the back-pointer path of the vertices.
C19_PathBetweenQueryPoints ==
    (geodesic # None /\ geodesic[1].returned # None) =>
        /\ Len(geodesic[1].returned[1].path) >= 1
        /\ geodesic[1].returned[1].path[1] = geodesic[1].startPoint
        /\ geodesic[1].returned[1].path[Len(geodesic[1].returned[1].path)] = geodesic[1].endPoint
        /\ \A k \in 2..(Len(geodesic[1].returned[1].path) - 1) :
              geodesic[1].returned[1].path[k]
                  = backPointerPath(geodesic[1].vertices, geodesic[1].previous,
                                    Some(geodesic[1].endVertexIndex), <<>>)[k]

\* two different points nearest to the same vertex: the path is the end point alone
C19_SameVertex ==
    /\ geodesic # None /\ geodesic[1].returned # None
    /\ geodesic[1].startVertexIndex = geodesic[1].endVertexIndex
    /\ geodesic[1].startPoint # geodesic[1].endPoint
    /\ geodesic[1].returned[1].path = <<geodesic[1].endPoint>>

\* C20: the distance returned is not smaller than the straight line between
\* the two points (lengths are rounded down to a thousandth: one thousandth
\* is allowed for each length the distance sums).
C20_NotShorterThanChord ==
    (geodesic # None /\ geodesic[1].returned # None) =>
        geodesic[1].returned[1].distance + Len(geodesic[1].returned[1].path) + 1
            >= distanceTo(geodesic[1].startPoint, geodesic[1].endPoint)

\* a path over two sides or more between two points off the vertices
C20_PathLongerThanChord ==
    /\ geodesic # None /\ geodesic[1].returned # None
    /\ Len(geodesic[1].returned[1].path) >= 3
    /\ geodesic[1].startPoint # geodesic[1].vertices[geodesic[1].startVertexIndex + 1]
    /\ geodesic[1].returned[1].distance > distanceTo(geodesic[1].startPoint, geodesic[1].endPoint)


-----------------------------------------------------------------------------
(* C21, C22: the segments of a grid cell                                   *)

\* a cell has been handed to an extractor
Marched == contour # None /\ contour[1].caller # "none"

\* the corner is on the low side of the level, as the extractor that ran compares:
\* v < CRITICAL_VALUE in CriticalTransitionContour, not p.y > level in ContourLines
lowSide(c, v) ==
    IF c.caller = "CriticalTransitionContour" THEN fGt(c.level, v) ELSE ~fGt(v, c.level)

\* the 4-bit case index of the cell
caseIndex(c) ==
    (IF lowSide(c, c.cell.v0) THEN 1 ELSE 0) + (IF lowSide(c, c.cell.v1) THEN 2 ELSE 0)
    + (IF lowSide(c, c.cell.v2) THEN 4 ELSE 0) + (IF lowSide(c, c.cell.v3) THEN 8 ELSE 0)

\* the sides of the cell a position is on the line of: 0 bottom, 1 right, 2 top, 3 left
sidesTouched(c, p) ==
    {side \in 0..3 :
        CASE side = 0 -> fNeg(p[3]) = c.cell.y0
          [] side = 1 -> p[1] = fAdd(c.cell.x0, c.cell.dx)
          [] side = 2 -> fNeg(p[3]) = fAdd(c.cell.y0, c.cell.dy)
          [] side = 3 -> p[1] = c.cell.x0}

segmentsOf(c) == Len(c.positions) \div 2

\* C21: the segments a grid cell gets are determined by its 4-bit case index: none for the
\* indices 0 and 15, exactly one for every index that is not a saddle, and for the saddle
\* indices 5 and 10 two segments, the two diagonal ones, which between them touch all four
\* sides of the cell.
C21_SegmentsByCaseIndex ==
    Marched =>
        /\ Len(contour[1].positions) = 2 * segmentsOf(contour[1])
        /\ caseIndex(contour[1]) \in {0, 15} => segmentsOf(contour[1]) = 0
        /\ caseIndex(contour[1]) \in (1..14) \ {5, 10} => segmentsOf(contour[1]) = 1
        /\ caseIndex(contour[1]) \in {5, 10} =>
            /\ segmentsOf(contour[1]) = 2
            /\ \A side \in 0..3 : \E k \in 1..4 : side \in sidesTouched(contour[1], contour[1].positions[k])

C21_SaddleTwoSegments ==
    /\ Marched
    /\ contour[1].caller = "CriticalTransitionContour"
    /\ caseIndex(contour[1]) = 5
    /\ segmentsOf(contour[1]) = 2

\* the sides of a cell: the plane positions of their two ends and the corner values there
sideEnds(c, side) ==
    CASE side = 0 -> [ax |-> c.cell.x0, ay |-> c.cell.y0, va |-> c.cell.v0,
                      bx |-> fAdd(c.cell.x0, c.cell.dx), by |-> c.cell.y0, vb |-> c.cell.v1]
      [] side = 1 -> [ax |-> fAdd(c.cell.x0, c.cell.dx), ay |-> c.cell.y0, va |-> c.cell.v1,
                      bx |-> fAdd(c.cell.x0, c.cell.dx), by |-> fAdd(c.cell.y0, c.cell.dy), vb |-> c.cell.v2]
      [] side = 2 -> [ax |-> c.cell.x0, ay |-> fAdd(c.cell.y0, c.cell.dy), va |-> c.cell.v3,
                      bx |-> fAdd(c.cell.x0, c.cell.dx), by |-> fAdd(c.cell.y0, c.cell.dy), vb |-> c.cell.v2]
      [] side = 3 -> [ax |-> c.cell.x0, ay |-> c.cell.y0, va |-> c.cell.v0,
                      bx |-> c.cell.x0, by |-> fAdd(c.cell.y0, c.cell.dy), vb |-> c.cell.v3]

\* one end of the side is on the low side of the level and the other is not
straddles(c, e) ==
    /\ e.va # NotANumber /\ e.vb # NotANumber
    /\ lowSide(c, e.va) # lowSide(c, e.vb)

\* q lies where the line from (a, va) to (b, vb) crosses the level, along one axis; the
\* quotient and the product are each rounded to a thousandth
crossesAt(q, a, b, va, vb, level) ==
    /\ isFinite(q)
    /\ IF a <= b THEN a <= q /\ q <= b ELSE b <= q /\ q <= a
    /\ isFinite(va) /\ isFinite(vb) =>
        /\ (q - a) * (vb - va) - (b - a) * (level - va) <= 2 * (IF vb > va THEN vb - va ELSE va - vb)
        /\ (b - a) * (level - va) - (q - a) * (vb - va) <= 2 * (IF vb > va THEN vb - va ELSE va - vb)

\* the position p is the interpolated crossing of a side that straddles the level
onStraddledSide(c, p) ==
    \E side \in 0..3 :
        /\ straddles(c, sideEnds(c, side))
        /\ crossesAt(p[1], sideEnds(c, side).ax, sideEnds(c, side).bx,
                     sideEnds(c, side).va, sideEnds(c, side).vb, c.level)
        /\ crossesAt(fNeg(p[3]), sideEnds(c, side).ay, sideEnds(c, side).by,
                     sideEnds(c, side).va, sideEnds(c, side).vb, c.level)

\* C22: for every grid cell and level, each end of an emitted segment lies on a side of the
\* cell whose two corner values straddle the level, at the linearly interpolated crossing
\* between the two corners (so never on a side whose corner values are equal).
C22_EndpointsInterpolated ==
    Marched => \A k \in 1..Len(contour[1].positions) : onStraddledSide(contour[1], contour[1].positions[k])

\* CriticalTransitionContour gave a segment an end that is not a number, over a side with
\* one corner below the level and the other at minus or plus infinity or not a number
C22_EndpointNotANumber ==
    /\ Marched
    /\ contour[1].caller = "CriticalTransitionContour"
    /\ caseIndex(contour[1]) = 1
    /\ contour[1].cell.v0 = -Infinity /\ contour[1].cell.v1 = 0 /\ contour[1].cell.v3 = 1000
    /\ contour[1].positions[2][1] = NotANumber

-----------------------------------------------------------------------------
(* C23: the end of a streamline trace                                      *)

\* C23: every streamline trace ends no later than the first step at which the position has
\* left the coordinate ranges, the local field magnitude is below the epsilon, or the number
\* of steps taken has reached the maximum step count; a trace that goes on has met none of
\* the three.
C23_EndsAtFirstStop ==
    fieldline # None =>
        /\ fieldline[1].firstStop # None => Len(fieldline[1].points) <= fieldline[1].firstStop[1]
        /\ fieldline[1].returned => fieldline[1].firstStop # None

\* generateFieldline has returned two steps after the steps taken reached config.length
C23_RanPastMaximum ==
    /\ fieldline # None
    /\ fieldline[1].caller = "generateFieldline"
    /\ fieldline[1].returned
    /\ fieldline[1].firstStop = Some(fieldline[1].length)
    /\ Len(fieldline[1].points) = fieldline[1].length + 2

-----------------------------------------------------------------------------
(* C24, C25: the integration step of a particle                            *)

\* the time step of the scheme
stepOf(s) == IF s.scheme = "integrateFuture" THEN SIM_DT ELSE s.config.dt

\* C24: in every integration step the velocity is updated first and the position is then
\* advanced with the velocity already updated in that step: new position = old position +
\* new velocity * dt, on both axes.
C24_VelocityFirst ==
    (physics # None /\ physics[1].integrated # None) =>
        /\ physics[1].integrated[1].x
            = fAdd(physics[1].previous[1].x, fMul(physics[1].integrated[1].vx, stepOf(physics[1])))
        /\ physics[1].integrated[1].y
            = fAdd(physics[1].previous[1].y, fMul(physics[1].integrated[1].vy, stepOf(physics[1])))

\* a frame of ParticleSystem has put a particle where the velocity it had before the step
\* takes it, more than rounding away from where the updated velocity would
C24_PositionFromOldVelocity ==
    /\ physics # None /\ physics[1].integrated # None
    /\ physics[1].scheme = "ParticleSystem"
    /\ isFinite(physics[1].integrated[1].x) /\ isFinite(physics[1].integrated[1].vx)
    /\ physics[1].integrated[1].x
        = advanced(physics[1].previous[1].x, physics[1].previous[1].vx,
                   acceleration(physics[1].config, physics[1].previous[1].vx,
                                computeGradient(physics[1].config.plotExpr, physics[1].previous[1].x,
                                                physics[1].previous[1].y).dx),
                   physics[1].config.dt)
    /\ physics[1].integrated[1].x
        - fAdd(physics[1].previous[1].x, fMul(physics[1].integrated[1].vx, physics[1].config.dt)) >= 2

\* C25: at the end of every complete integration step (integration, boundary handling,
\* safety respawn) and right after the initial spawn, the particle's position lies within
\* the configured x and y ranges, also when the step respawned it.
C25_PositionWithinRanges ==
    (physics # None /\ physics[1].scheme \in {"useParticlePhysics", "ParticleSystem"}) =>
        /\ fGe(physics[1].particle.x, physics[1].config.xRange.min)
        /\ fGe(physics[1].config.xRange.max, physics[1].particle.x)
        /\ fGe(physics[1].particle.y, physics[1].config.yRange.min)
        /\ fGe(physics[1].config.yRange.max, physics[1].particle.y)

\* a step of useParticlePhysics has respawned the particle beyond the x range
C25_RespawnedOutside ==
    /\ physics # None
    /\ physics[1].scheme = "useParticlePhysics"
    /\ physics[1].respawned
    /\ physics[1].particle.x > physics[1].config.xRange.max

-----------------------------------------------------------------------------
(* C30: the gradient cache                                                 *)

-----------------------------------------------------------------------------
(* C26: the debounced parse                                                *)

\* a step that runs a parse or changes what App shows of one
ParseRuns ==
    \/ parsedCode' # parsedCode \/ lastParse' # lastParse
    \/ graphData' # graphData \/ error' # error
    \/ (debounceTimeout # None /\ debounceTimeout' = None)

\* C26: every parse that runs is the pending one and uses the text that is current when it
\* runs; a change of the text replaces the pending parse by one of the new text, so a
\* pending parse always holds the current text, and when no parse is pending the result
\* shown is that of the current text.
C26_ParsesCurrentText ==
    /\ [](debounceTimeout # None => debounceTimeout[1] = g3dCode)
    /\ [](debounceTimeout = None => parsedCode = Some(g3dCode))
    /\ [][ParseRuns => (debounceTimeout = Some(g3dCode) /\ g3dCode' = g3dCode
                        /\ parsedCode' = Some(g3dCode))]_vars

\* the parse of a text typed into an emptied editor has run, and no parse is pending
C26_ChangedTextParsed ==
    /\ debounceTimeout = None
    /\ parsedCode = Some(g3dCode)
    /\ Len(g3dCode) = 2
    /\ lastParse # None

-----------------------------------------------------------------------------
(* C27: the animation time                                                 *)

\* C27: while an animation is playing, its time stays within [from, to] of the Animation
\* of the IR: a tick advances it by step, or wraps it to from when the step would exceed to.
C27_TimeWithinFromTo ==
    (animation # None /\ animation[1].isPlaying) =>
        /\ animation[1].animation.from <= animation[1].time
        /\ animation[1].time <= animation[1].animation.to

\* the clock of an ANIMATE statement with FROM above TO has ticked and stands above to
C27_TimeAboveTo ==
    /\ animation # None
    /\ animation[1].isPlaying
    /\ animation[1].ticked
    /\ animation[1].animation.to < animation[1].animation.from
    /\ animation[1].time > animation[1].animation.to

-----------------------------------------------------------------------------
(* C28: the points of a measurement                                        *)

\* C28: for any sequence of surface clicks and measurement-mode toggles the measurement
\* holds at most 2 points, and has a path and a distance exactly when it holds 2 points; a
\* click made in measurement mode while 2 points are held starts a new measurement with
\* that click as its only point.
C28_AtMostTwoPoints ==
    measurement # None =>
        /\ Len(measurement[1].measurementData.points) <= 2
        /\ (measurement[1].measurementData.path # None) = (Len(measurement[1].measurementData.points) = 2)
        /\ (measurement[1].measurementData.distance # None) = (Len(measurement[1].measurementData.points) = 2)
        /\ (measurement[1].event = "click" /\ measurement[1].isMeasurementMode /\ measurement[1].held = 2)
            => measurement[1].measurementData.points = <<measurement[1].point>>

C28_ThirdClickStartsAnew ==
    /\ measurement # None
    /\ measurement[1].event = "click" /\ measurement[1].isMeasurementMode
    /\ measurement[1].held = 2
    /\ measurement[1].measurementData = MeasurementData(<<measurement[1].point>>, None, None)

-----------------------------------------------------------------------------
(* C29: the values of the grid of exponents                                *)

\* C29: every value in the grid returned by generateLyapunovGrid lies in the range [0, 1],
\* for any potential, ranges and damping and coupling coefficients.
C29_GridWithinUnit ==
    (lyapunov # None /\ lyapunov[1].returned) =>
        \A k \in 1..Len(lyapunov[1].data) :
            /\ mFinite(lyapunov[1].data[k])
            /\ lyapunov[1].data[k] >= 0
            /\ lyapunov[1].data[k] <= 1000000

\* a grid returned without the normalisation, holding a negative exponent
C29_NegativeExponentReturned ==
    /\ lyapunov # None
    /\ lyapunov[1].returned
    /\ Len(lyapunov[1].data) = lyapunov[1].args.width * lyapunov[1].args.height
    /\ ~mGt(lyapunov[1].maxExponent, 0)
    /\ \E k \in 1..Len(lyapunov[1].data) : lyapunov[1].data[k] < 0

====
